---- MODULE Spec2Model ----
(***************************************************************************)
(* Control pipeline of the rpicamera helper (mediamtx): the supervisor     *)
(* (main.c), the encoder output-drain thread (encoder.c), the capture      *)
(* completion path feeding the encoder, and the length-prefixed message    *)
(* channel (pipe.c).                                                       *)
(*                                                                         *)
(* The specifications of the module:                                       *)
(*   Spec      the helper process: main thread, drain thread, capture      *)
(*             completions, the encoder device and the outbound pipe;      *)
(*   SpecPipe  the channel alone: a writer using pipe_write_* and a        *)
(*             reader using pipe_read over a kernel pipe;                  *)
(*   SpecCam   the capture session in steady state and its                 *)
(*             reconfiguration;                                            *)
(*   SpecDec   the decoders and the startup geometry as functions of       *)
(*             their inputs;                                               *)
(*   SpecStop  the running pipeline when a stop is requested;              *)
(*   SpecEnc   the encode session: its ring of input indices and its       *)
(*             output slots.                                               *)
(***************************************************************************)
EXTENDS Integers, Sequences, FiniteSets, TLC

VARIABLES
    \* ---- helper process (Spec) ----
    mainPc,          \* position of main()
    mainErr,         \* text formatted by the pending pipe_write_error call
    retCode,         \* value main is about to return
    done,            \* startup calls made so far, in order: <<name, ok>>
    mutex,           \* pipe_mutex: "free" or the thread holding it
    drainPc,         \* position of output_thread ("none" before pthread_create)
    ts_initialized,  \* encoder_priv_t.ts_initialized
    start_ts,        \* encoder_priv_t.start_ts (uint64, 8 bytes little-endian)
    cur_buffer,      \* encoder_priv_t.cur_buffer
    drainBuf,        \* the capture-queue buffer output_thread holds: [ts, data]
    hwIn,            \* encoder input queue: timestamps of queued raw frames
    hwDone,          \* input buffers consumed by the encoder, not yet returned
    hwRet,           \* input buffers returned, waiting for VIDIOC_DQBUF
    hwOut,           \* encoded buffers ready on the capture queue
    camRunning,      \* Camera.start() has succeeded
    nCaptured,       \* capture completions delivered so far
    nDropped,        \* frames rejected by VIDIOC_QBUF in encoder_encode
    stream,          \* write() calls made on PIPE_FD: [f |-> frame number, bytes]
    nFrames,         \* frames begun on PIPE_FD
    lockedWrites,    \* every write() so far was made by the holder of pipe_mutex
    absTs,           \* absolute timestamps of the dequeued access units
    cbTs,            \* timestamps received by on_encoder_output
    startTsWrites,   \* number of assignments to start_ts
    earlyAU,         \* output_cb was called while main still held pipe_mutex
    procState,       \* "running" or "exited"
    exitCode,        \* exit status once exited
    exitBy,          \* who ended the process
    \* ---- channel (SpecPipe) ----
    chMsgs,          \* messages the writer is to send
    chWr,            \* writer position: [msg, call]
    chLog,           \* bytes written so far for each message begun
    chPipe,          \* bytes in the kernel pipe
    chRdPc,          \* position of pipe_read
    chN,             \* pipe_read's n, the four bytes it holds
    chGot,           \* bytes of n that read() has stored
    chOut,           \* frames returned by pipe_read: [n (4 bytes), got, buf]
    \* ---- capture session and reconfiguration (SpecCam) ----
    requests,        \* CameraPriv.requests: the Request objects created
    sensorQ,         \* requests queued at the sensor, oldest first
    rcPc,            \* position of on_request_complete
    rcReq,           \* the request on_request_complete is handling
    ctrls,           \* CameraPriv.ctrls: control id -> value, 0 when not set
    ctrls_mutex,     \* CameraPriv.ctrls_mutex: "free" or the thread holding it
    supPc,           \* position of the supervisor's reconfiguration handling
    supMsg,          \* the reconfiguration message being handled
    supAt,           \* progress inside the current step (token or field index)
    unsOk,           \* result of the last parameters_unserialize
    live,            \* the live Parameter Set
    fresh,           \* the Parameter Set being decoded
    reloadLog,       \* the Parameter Set of each camera_reload_params call
    reloadsDone,     \* camera_reload_params calls returned
    nMsgs,           \* reconfiguration messages received
    livePrev,        \* the live Parameter Set when the message arrived
    rcLog,           \* what on_request_complete did, in order
    errLog,          \* decode errors reported: the numbers of the messages
    \* ---- decoders (SpecDec) and stop requests (SpecStop) ----
    decPc,           \* "idle" before the function is called, "done" after
    decIn,           \* the function called and its arguments
    decOut,          \* what the call left behind
    stopReq,         \* the stop request delivered: "none", "message", "signal"
    \* ---- encode session: input ring and output slots (SpecEnc) ----
    inRet,           \* input indices the encoder is done with, not yet dequeued
    capQ,            \* output slots queued at the encoder, oldest first
    capReady,        \* output slots holding an access unit, oldest first
    slotMem,         \* per output slot: [length, maps] of its memory mapping
    ringPc,          \* position of output_thread in its loop
    ringHeld,        \* the output slot output_thread has dequeued: [index, length]
    encLog           \* the VIDIOC_QBUF calls of encoder_encode, in order

procVars == <<mainPc, mainErr, retCode, done, mutex, drainPc, ts_initialized,
              start_ts, cur_buffer, drainBuf, hwIn, hwDone, hwRet, hwOut,
              camRunning, nCaptured, nDropped, stream, nFrames, lockedWrites,
              absTs, cbTs, startTsWrites, earlyAU, procState, exitCode,
              exitBy>>

chVars == <<chMsgs, chWr, chLog, chPipe, chRdPc, chN, chGot, chOut>>

decVars == <<decPc, decIn, decOut>>

ringVars == <<inRet, capQ, capReady, slotMem, ringPc, ringHeld, encLog>>

capVars == <<requests, sensorQ, rcPc, rcReq, ctrls, ctrls_mutex, supPc, supMsg,
             supAt, unsOk, live, fresh, livePrev, reloadLog, reloadsDone,
             nMsgs, rcLog, errLog, decVars, stopReq, ringVars>>

vars == <<procVars, chVars, capVars>>

(***************************************************************************)
(* Bounds of the model.                                                    *)
(***************************************************************************)
MaxFrames == 3      \* capture completions per run
MaxAU == 2          \* size in bytes of the largest access unit
MaxMsgs == 2        \* messages sent in one run of the channel
MaxReconf == 2      \* reconfiguration messages received in one run
MaxCompletions == 2 \* completed capture requests delivered in one run

(***************************************************************************)
(* Program constants.                                                      *)
(***************************************************************************)
TagE == 101             \* 'e'
TagR == 114             \* 'r'
TagB == 98              \* 'b'
ErrBufSize == 256       \* char buf[256]
ErrTextMax == 255       \* size given to vsnprintf
ExitStartupFailure == 5
ExitDrainFailure == 1
ExitClean == 0
UsecPerSec == 1000000
BufferCount == 6        \* params->buffer_count
PrefixSize == 4         \* bytes of the length prefix
TsSize == 8             \* sizeof(uint64_t)

Min(a, b) == IF a < b THEN a ELSE b

(***************************************************************************)
(* Fixed-width integers as little-endian byte strings, as they are written *)
(* to the pipe by write(fd, &n, 4) and write(fd, &ts, 8).                  *)
(***************************************************************************)
RECURSIVE LE(_, _)
LE(v, w) == IF w = 0 THEN << >> ELSE <<v % 256>> \o LE(v \div 256, w - 1)

RECURSIVE Dec(_)
Dec(bs) == IF bs = << >> THEN 0 ELSE bs[1] + 256 * Dec(Tail(bs))

U64(v) == LE(v, TsSize)

\* x - y on uint64_t: byte-wise subtraction with borrow, the final borrow dropped
RECURSIVE SubBytes(_, _, _)
SubBytes(x, y, borrow) ==
    IF x = << >> THEN << >>
    ELSE LET d == x[1] - y[1] - borrow
         IN  <<d % 256>> \o SubBytes(Tail(x), Tail(y), IF d < 0 THEN 1 ELSE 0)

Sub64(x, y) == SubBytes(x, y, 0)

\* x + y on uint64_t
RECURSIVE AddBytes(_, _, _)
AddBytes(x, y, carry) ==
    IF x = << >> THEN << >>
    ELSE LET s == x[1] + y[1] + carry
         IN  <<s % 256>> \o AddBytes(Tail(x), Tail(y), s \div 256)

Add64(x, y) == AddBytes(x, y, 0)

(***************************************************************************)
(* Error texts and the formats main() gives to pipe_write_error.           *)
(***************************************************************************)
FmtParametersLoad == <<112, 97, 114, 97, 109, 101, 116, 101, 114, 115, 95, 108, 111, 97, 100, 40, 41, 58, 32>>   \* "parameters_load(): "
FmtCameraCreate == <<99, 97, 109, 101, 114, 97, 95, 99, 114, 101, 97, 116, 101, 40, 41, 58, 32>>   \* "camera_create(): "
FmtEncoderCreate == <<101, 110, 99, 111, 100, 101, 114, 95, 99, 114, 101, 97, 116, 101, 40, 41, 58, 32>>   \* "encoder_create(): "
FmtCameraStart == <<99, 97, 109, 101, 114, 97, 95, 115, 116, 97, 114, 116, 40, 41, 58, 32>>   \* "camera_start(): "
ErrInvalidROI == <<105, 110, 118, 97, 108, 105, 100, 32, 82, 79, 73>>   \* "invalid ROI"
ErrCameraAcquire == <<67, 97, 109, 101, 114, 97, 46, 97, 99, 113, 117, 105, 114, 101, 40, 41, 32, 102, 97, 105, 108, 101, 100>>   \* "Camera.acquire() failed"
ErrEncoderOpen == <<117, 110, 97, 98, 108, 101, 32, 116, 111, 32, 111, 112, 101, 110, 32, 100, 101, 118, 105, 99, 101>>   \* "unable to open device"
ErrCameraStartFailed == <<67, 97, 109, 101, 114, 97, 46, 115, 116, 97, 114, 116, 40, 41, 32, 102, 97, 105, 108, 101, 100>>   \* "Camera.start() failed"
ErrQueueRequest == <<67, 97, 109, 101, 114, 97, 46, 113, 117, 101, 117, 101, 82, 101, 113, 117, 101, 115, 116, 40, 41, 32, 102, 97, 105, 108, 101, 100>>   \* "Camera.queueRequest() failed"

\* the text each failing startup call leaves in its errbuf
ErrTexts(step) ==
    CASE step = "parameters_load" -> {ErrInvalidROI}
      [] step = "camera_create"   -> {ErrCameraAcquire}
      [] step = "encoder_create"  -> {ErrEncoderOpen}
      [] step = "camera_start"    -> {ErrCameraStartFailed, ErrQueueRequest}

Fmt(step) ==
    CASE step = "parameters_load" -> FmtParametersLoad
      [] step = "camera_create"   -> FmtCameraCreate
      [] step = "encoder_create"  -> FmtEncoderCreate
      [] step = "camera_start"    -> FmtCameraStart

(***************************************************************************)
(* The framed writers (pipe.c, and their copies in main.c).  Each returns  *)
(* the list of write() calls it makes, one byte string per call.           *)
(***************************************************************************)
\* vsnprintf(&buf[1], 255, format, args): at most 254 characters are stored
Vsnprintf(text) == SubSeq(text, 1, Min(Len(text), ErrTextMax - 1))

\* faulty variant: the value returned by vsnprintf, the length before truncation
ErrorNUntruncated(text) == 1 + Len(text)

\* strlen(buf) with buf[0] = 'e'
ErrorN(text) == 1 + Len(Vsnprintf(text))

\* write(fd, buf, n): n bytes starting at buf; bytes past the initialised part
\* of the array read as 0
WriteFrom(buf, n) == [i \in 1..n |-> IF i <= Len(buf) THEN buf[i] ELSE 0]

PipeWriteError(text) ==
    LET buf == <<TagE>> \o Vsnprintf(text)
        n   == ErrorN(text)
    IN  << LE(n, PrefixSize), WriteFrom(buf, n) >>

ReadyN == 1

PipeWriteReady ==
    LET buf == <<TagR>>
        n   == ReadyN
    IN  << LE(n, PrefixSize), WriteFrom(buf, n) >>

\* n += 1 + sizeof(uint64_t)
BufN(size) == size + 1 + TsSize

PipeWriteBuf(ts, data) ==
    LET n == BufN(Len(data))
    IN  << LE(n, PrefixSize), <<TagB>>, ts, WriteFrom(data, n - 1 - TsSize) >>

(***************************************************************************)
(* Inputs of the model.                                                    *)
(***************************************************************************)
\* capture timestamps in microseconds (buffer->metadata().timestamp / 1000)
TsSet == {1000, 1500, 2200}

\* bytesused of the encoded buffer produced from the input with this index:
\* the sizes 1..MaxAU in turn
AUSize(index) == 1 + (index % MaxAU)

\* contents of an access unit of the given size
AUData(size) == [i \in 1..size |-> 64 + i]

NoBuf == [ts |-> U64(0), data |-> << >>]

(***************************************************************************)
(* The helper process.                                                     *)
(***************************************************************************)
Running == procState = "running"

\* exit(code), or main returning code: the process and all its threads end
Exit(code, who) ==
    /\ procState' = "exited"
    /\ exitCode' = code
    /\ exitBy' = who

\* one write() on PIPE_FD by thread self, as part of frame fid
Write(self, bytes, fid) ==
    /\ stream' = Append(stream, [f |-> fid, bytes |-> bytes])
    /\ lockedWrites' = (lockedWrites /\ mutex = self)

\* faulty variant: a lock that does not wait for the holder to release it
MutexLockNoWait(self) == mutex' = self

\* pthread_mutex_lock(&pipe_mutex) returns once the mutex is free
MutexLock(self) ==
    /\ mutex = "free"
    /\ mutex' = self

MutexUnlock(self) == mutex' = "free"

encVars == <<ts_initialized, start_ts, cur_buffer, drainBuf>>
hwVars == <<hwIn, hwDone, hwRet, hwOut>>
camVars == <<camRunning, nCaptured, nDropped>>
pipeVars == <<stream, nFrames, lockedWrites>>
tsVars == <<absTs, cbTs, startTsWrites, earlyAU>>
exitVars == <<procState, exitCode, exitBy>>
mainVars == <<mainPc, mainErr, retCode, done>>

\* ---------------------------------------------------------------- main()

\* faulty variant: main starts up without taking pipe_mutex
MainNoLock ==
    /\ Running /\ mainPc = "lock"
    /\ mainPc' = "parameters_load"
    /\ UNCHANGED <<mainErr, retCode, done, mutex, drainPc, encVars, hwVars,
                   camVars, pipeVars, tsVars, exitVars, chVars, capVars>>

\* main.c:73-74
MainLock ==
    /\ Running /\ mainPc = "lock"
    /\ MutexLock("main")
    /\ mainPc' = "parameters_load"
    /\ UNCHANGED <<mainErr, retCode, done, drainPc, encVars, hwVars, camVars,
                   pipeVars, tsVars, exitVars, chVars, capVars>>

\* faulty variant: a failed encoder start is reported with status 0
FailureCodeZero(step) ==
    IF step = "encoder_create" THEN ExitClean ELSE ExitStartupFailure

\* the value main returns when a startup call has failed (main.c:79, 88, 99,
\* 105)
FailureCode(step) ==
    CASE step = "parameters_load" -> ExitStartupFailure
      [] step = "camera_create"   -> ExitStartupFailure
      [] step = "encoder_create"  -> ExitStartupFailure
      [] step = "camera_start"    -> ExitStartupFailure

\* a startup call returned false: main formats the error and returns
StartupFailed(step, text) ==
    /\ done' = Append(done, <<step, FALSE>>)
    /\ mainErr' = Fmt(step) \o text
    /\ retCode' = FailureCode(step)
    /\ mainPc' = "err_len"

StartupOk(step, next) ==
    /\ done' = Append(done, <<step, TRUE>>)
    /\ mainPc' = next
    /\ UNCHANGED <<mainErr, retCode>>

AfterParametersLoad == "camera_create"
\* faulty variant: the capture session is started before the encoder exists
AfterCameraCreateSkip == "camera_start"

AfterCameraCreate == "encoder_create"
AfterEncoderCreate == "camera_start"
AfterCameraStart == "init_siglistener"
AfterSiglistener == "ready_len"

\* main.c:76-80
MainParametersLoad ==
    /\ Running /\ mainPc = "parameters_load"
    /\ \/ StartupOk("parameters_load", AfterParametersLoad)
       \/ \E t \in ErrTexts("parameters_load") : StartupFailed("parameters_load", t)
    /\ UNCHANGED <<mutex, drainPc, encVars, hwVars, camVars, pipeVars, tsVars,
                   exitVars, chVars, capVars>>

\* faulty variant: camera_create connects the completion handler and queues
\* the requests itself
MainCameraCreateQueues ==
    /\ Running /\ mainPc = "camera_create"
    /\ \/ /\ StartupOk("camera_create", AfterCameraCreate)
          /\ camRunning' = TRUE
       \/ /\ \E t \in ErrTexts("camera_create") : StartupFailed("camera_create", t)
          /\ UNCHANGED camRunning
    /\ UNCHANGED <<mutex, drainPc, encVars, hwVars, nCaptured, nDropped,
                   pipeVars, tsVars, exitVars, chVars, capVars>>

\* main.c:82-89
MainCameraCreate ==
    /\ Running /\ mainPc = "camera_create"
    /\ \/ StartupOk("camera_create", AfterCameraCreate)
       \/ \E t \in ErrTexts("camera_create") : StartupFailed("camera_create", t)
    /\ UNCHANGED <<mutex, drainPc, encVars, hwVars, camVars, pipeVars, tsVars,
                   exitVars, chVars, capVars>>

\* main.c:91-100 with encoder.c:115-304: on success the session is initialised
\* (cur_buffer = 0, ts_initialized = false) and output_thread is created; on
\* failure no thread exists
MainEncoderCreate ==
    /\ Running /\ mainPc = "encoder_create"
    /\ \/ /\ StartupOk("encoder_create", AfterEncoderCreate)
          /\ cur_buffer' = 0
          /\ ts_initialized' = FALSE
          /\ drainPc' = "poll"
       \/ /\ \E t \in ErrTexts("encoder_create") : StartupFailed("encoder_create", t)
          /\ UNCHANGED <<cur_buffer, ts_initialized, drainPc>>
    /\ UNCHANGED <<mutex, start_ts, drainBuf, hwVars, camVars, pipeVars, tsVars,
                   exitVars, chVars, capVars>>

\* main.c:102-106 with camera.cpp:373-479: camera_start fails either before
\* Camera.start() (the session is not running) or in queueRequest() after it
\* (the session runs and requests already queued may complete)
MainCameraStart ==
    /\ Running /\ mainPc = "camera_start"
    /\ \/ /\ StartupOk("camera_start", AfterCameraStart)
          /\ camRunning' = TRUE
       \/ /\ StartupFailed("camera_start", ErrCameraStartFailed)
          /\ UNCHANGED camRunning
       \/ /\ StartupFailed("camera_start", ErrQueueRequest)
          /\ camRunning' = TRUE
    /\ UNCHANGED <<mutex, drainPc, encVars, hwVars, nCaptured, nDropped,
                   pipeVars, tsVars, exitVars, chVars, capVars>>

\* main.c:108-113 with main.c:59-68: sigaddset(set, SIGKILL) succeeds for a
\* valid signal number, so init_siglistener returns true
MainInitSiglistener ==
    /\ Running /\ mainPc = "init_siglistener"
    /\ StartupOk("init_siglistener", AfterSiglistener)
    /\ UNCHANGED <<mutex, drainPc, encVars, hwVars, camVars, pipeVars, tsVars,
                   exitVars, chVars, capVars>>

\* main.c:22-31, the two write() calls of pipe_write_error
MainWriteError ==
    /\ Running /\ mainPc \in {"err_len", "err_body"}
    /\ LET calls == PipeWriteError(mainErr)
       IN  IF mainPc = "err_len"
           THEN /\ Write("main", calls[1], nFrames + 1)
                /\ nFrames' = nFrames + 1
                /\ mainPc' = "err_body"
           ELSE /\ Write("main", calls[2], nFrames)
                /\ UNCHANGED nFrames
                /\ mainPc' = "return"
    /\ UNCHANGED <<mainErr, retCode, done, mutex, drainPc, encVars, hwVars,
                   camVars, tsVars, exitVars, chVars, capVars>>

\* main.c:33-38 and 115, the two write() calls of pipe_write_ready
MainWriteReady ==
    /\ Running /\ mainPc \in {"ready_len", "ready_body"}
    /\ LET calls == PipeWriteReady
       IN  IF mainPc = "ready_len"
           THEN /\ Write("main", calls[1], nFrames + 1)
                /\ nFrames' = nFrames + 1
                /\ mainPc' = "ready_body"
           ELSE /\ Write("main", calls[2], nFrames)
                /\ UNCHANGED nFrames
                /\ mainPc' = "unlock"
    /\ UNCHANGED <<mainErr, retCode, done, mutex, drainPc, encVars, hwVars,
                   camVars, tsVars, exitVars, chVars, capVars>>

\* main.c:116
MainUnlock ==
    /\ Running /\ mainPc = "unlock"
    /\ MutexUnlock("main")
    /\ mainPc' = "sigwait"
    /\ UNCHANGED <<mainErr, retCode, done, drainPc, encVars, hwVars, camVars,
                   pipeVars, tsVars, exitVars, chVars, capVars>>

\* main.c:118-121: sigwait returns and main returns 0, which ends the process
MainSigwait ==
    /\ Running /\ mainPc = "sigwait"
    /\ retCode' = ExitClean
    /\ Exit(ExitClean, "main")
    /\ mainPc' = "exited"
    /\ UNCHANGED <<mainErr, done, mutex, drainPc, encVars, hwVars, camVars,
                   pipeVars, tsVars, chVars, capVars>>

\* return 5 from main (main.c:79, 88, 99, 105): the process exits with the
\* returned value
MainReturn ==
    /\ Running /\ mainPc = "return"
    /\ Exit(retCode, "main")
    /\ mainPc' = "exited"
    /\ UNCHANGED <<mainErr, retCode, done, mutex, drainPc, encVars, hwVars,
                   camVars, pipeVars, tsVars, chVars, capVars>>

\* ------------------------------------------- capture completion (camera.cpp)

\* faulty variant: a rejected frame is submitted again until it is accepted
EncoderEncodeRetry(timestamp_us, qbufOk) ==
    LET index == cur_buffer
    IN  /\ cur_buffer' = (cur_buffer + 1) % BufferCount
        /\ hwIn' = Append(hwIn, [index |-> index,
                                 tv_sec |-> timestamp_us \div UsecPerSec,
                                 tv_usec |-> timestamp_us % UsecPerSec])
        /\ nDropped' = IF qbufOk THEN nDropped ELSE nDropped + 1

\* encoder_encode (encoder.c:306-330), called through on_frame (main.c:49-51)
\* from on_request_complete (camera.cpp:263-289): the input index advances
\* round-robin, the timestamp is split into tv_sec and tv_usec, and a rejected
\* VIDIOC_QBUF drops the frame
EncoderEncode(timestamp_us, qbufOk) ==
    LET index == cur_buffer
    IN  /\ cur_buffer' = (cur_buffer + 1) % BufferCount
        /\ IF qbufOk
           THEN /\ hwIn' = Append(hwIn, [index |-> index,
                                         tv_sec |-> timestamp_us \div UsecPerSec,
                                         tv_usec |-> timestamp_us % UsecPerSec])
                /\ UNCHANGED nDropped
           ELSE /\ nDropped' = nDropped + 1
                /\ UNCHANGED hwIn

OnRequestComplete ==
    /\ Running /\ camRunning /\ nCaptured < MaxFrames
    /\ \E t \in TsSet, ok \in BOOLEAN : EncoderEncode(t, ok)
    /\ nCaptured' = nCaptured + 1
    /\ UNCHANGED <<mainVars, mutex, drainPc, ts_initialized, start_ts, drainBuf,
                   hwDone, hwRet, hwOut, camRunning, pipeVars, tsVars, exitVars,
                   chVars, capVars>>

\* ------------------------------------------------ the encoder device

\* the encoder consumes the oldest queued input and fills a capture-queue
\* buffer, which carries the input's timestamp
HwEncode ==
    /\ Running /\ hwIn # << >>
    /\ hwOut' = Append(hwOut, [tv_sec |-> Head(hwIn).tv_sec,
                               tv_usec |-> Head(hwIn).tv_usec,
                               data |-> AUData(AUSize(Head(hwIn).index))])
    /\ hwIn' = Tail(hwIn)
    /\ hwDone' = hwDone + 1
    /\ UNCHANGED <<mainVars, mutex, drainPc, encVars, hwRet, camVars, pipeVars,
                   tsVars, exitVars, chVars, capVars>>

\* the encoder hands a consumed input buffer back
HwReturn ==
    /\ Running /\ hwDone > 0
    /\ hwDone' = hwDone - 1
    /\ hwRet' = hwRet + 1
    /\ UNCHANGED <<mainVars, mutex, drainPc, encVars, hwIn, hwOut, camVars,
                   pipeVars, tsVars, exitVars, chVars, capVars>>

\* ------------------------------------------- output_thread (encoder.c:46-113)

\* exit(1) after a failed poll(), VIDIOC_DQBUF or VIDIOC_QBUF: the message goes
\* to stderr and nothing is written to the pipe
DrainFatal ==
    /\ Exit(ExitDrainFailure, "drain")
    /\ drainPc' = "exited"
    /\ UNCHANGED <<mainVars, mutex, encVars, hwVars, camVars, pipeVars, tsVars,
                   chVars, capVars>>

\* encoder.c:50-55, poll() returns -1
DrainPollFail ==
    /\ Running /\ drainPc = "poll"
    /\ DrainFatal

\* encoder.c:50-57, poll() reports POLLIN: an encoded buffer is ready.  A
\* timeout leaves every variable as it is and the loop polls again
DrainPollIn ==
    /\ Running /\ drainPc = "poll"
    /\ hwOut # << >>
    /\ drainPc' = "dq_in"
    /\ UNCHANGED <<mainVars, mutex, encVars, hwVars, camVars, pipeVars, tsVars,
                   exitVars, chVars, capVars>>

\* encoder.c:58-64, VIDIOC_DQBUF on the input queue returns a buffer
DrainDqInOk ==
    /\ Running /\ drainPc = "dq_in"
    /\ hwRet > 0
    /\ hwRet' = hwRet - 1
    /\ drainPc' = "dq_out"
    /\ UNCHANGED <<mainVars, mutex, encVars, hwIn, hwDone, hwOut, camVars,
                   pipeVars, tsVars, exitVars, chVars, capVars>>

\* encoder.c:64-68, VIDIOC_DQBUF on the input queue fails
DrainDqInFail ==
    /\ Running /\ drainPc = "dq_in"
    /\ DrainFatal

\* faulty variant: the absolute timestamp is passed on
RelTsAbsolute(ts, start) == ts

\* ts -= encp->start_ts (encoder.c:78-85)
RelTs(ts, start) == Sub64(ts, start)

\* encoder.c:70-89, VIDIOC_DQBUF on the capture queue returns an encoded
\* buffer: the timestamp is made relative to the first one and output_cb is
\* called (on_encoder_output, which first takes pipe_mutex)
DrainDqOutOk ==
    /\ Running /\ drainPc = "dq_out"
    /\ hwOut # << >>
    /\ LET buf   == Head(hwOut)
           abs   == buf.tv_sec * UsecPerSec + buf.tv_usec
           ts    == U64(abs)
           start == IF ts_initialized THEN start_ts ELSE ts
       IN  /\ ts_initialized' = TRUE
           /\ start_ts' = start
           /\ startTsWrites' = IF ts_initialized THEN startTsWrites
                                                 ELSE startTsWrites + 1
           /\ drainBuf' = [ts |-> RelTs(ts, start), data |-> buf.data]
           /\ absTs' = Append(absTs, abs)
           /\ cbTs' = Append(cbTs, RelTs(ts, start))
           /\ earlyAU' = (earlyAU \/ mutex = "main")
    /\ hwOut' = Tail(hwOut)
    /\ drainPc' = "cb_lock"
    /\ UNCHANGED <<mainVars, mutex, cur_buffer, hwIn, hwDone, hwRet, camVars,
                   pipeVars, exitVars, chVars, capVars>>

\* encoder.c:76-77, VIDIOC_DQBUF on the capture queue fails: back to poll()
DrainDqOutFail ==
    /\ Running /\ drainPc = "dq_out"
    /\ drainPc' = "poll"
    /\ UNCHANGED <<mainVars, mutex, encVars, hwVars, camVars, pipeVars, tsVars,
                   exitVars, chVars, capVars>>

\* main.c:54
DrainLock ==
    /\ Running /\ drainPc = "cb_lock"
    /\ MutexLock("drain")
    /\ drainPc' = "w_len"
    /\ UNCHANGED <<mainVars, encVars, hwVars, camVars, pipeVars, tsVars,
                   exitVars, chVars, capVars>>

\* main.c:40-47 and 55, the four write() calls of pipe_write_buf
DrainWrite ==
    /\ Running /\ drainPc \in {"w_len", "w_tag", "w_ts", "w_data"}
    /\ LET calls == PipeWriteBuf(drainBuf.ts, drainBuf.data)
       IN  CASE drainPc = "w_len" ->
                  /\ Write("drain", calls[1], nFrames + 1)
                  /\ nFrames' = nFrames + 1
                  /\ drainPc' = "w_tag"
             [] drainPc = "w_tag" ->
                  /\ Write("drain", calls[2], nFrames)
                  /\ UNCHANGED nFrames
                  /\ drainPc' = "w_ts"
             [] drainPc = "w_ts" ->
                  /\ Write("drain", calls[3], nFrames)
                  /\ UNCHANGED nFrames
                  /\ drainPc' = "w_data"
             [] drainPc = "w_data" ->
                  /\ Write("drain", calls[4], nFrames)
                  /\ UNCHANGED nFrames
                  /\ drainPc' = "cb_unlock"
    /\ UNCHANGED <<mainVars, mutex, encVars, hwVars, camVars, tsVars, exitVars,
                   chVars, capVars>>

\* main.c:56
DrainUnlock ==
    /\ Running /\ drainPc = "cb_unlock"
    /\ MutexUnlock("drain")
    /\ drainPc' = "requeue"
    /\ UNCHANGED <<mainVars, encVars, hwVars, camVars, pipeVars, tsVars,
                   exitVars, chVars, capVars>>

\* encoder.c:91-103, the buffer is queued again
DrainRequeueOk ==
    /\ Running /\ drainPc = "requeue"
    /\ drainBuf' = NoBuf
    /\ drainPc' = "poll"
    /\ UNCHANGED <<mainVars, mutex, ts_initialized, start_ts, cur_buffer, hwVars,
                   camVars, pipeVars, tsVars, exitVars, chVars, capVars>>

\* encoder.c:103-107, VIDIOC_QBUF fails
DrainRequeueFail ==
    /\ Running /\ drainPc = "requeue"
    /\ DrainFatal

(***************************************************************************)
(* The Parameter Set and its decoder (parameters.c, window.c).             *)
(***************************************************************************)
\* keys of the dynamic fields, in the order fill_dynamic_controls reads them
DynKeys ==
    <<"Brightness", "Contrast", "Saturation", "Sharpness", "Exposure", "AWB",
      "Denoise", "Shutter", "Metering", "Gain", "EV", "FPS">>

DynKeySet == {DynKeys[i] : i \in DOMAIN DynKeys}

\* one "Key:Value" entry of a message; win holds the comma-separated values
\* of a window, in tenths
Token(key, val, win) == [key |-> key, val |-> val, win |-> win]

NullWindow == [state |-> "null", vals |-> << >>]

\* memset(params, 0, sizeof(parameters_t))
ZeroParams ==
    [dyn |-> [k \in DynKeySet |-> 0], width |-> 0, roi |-> NullWindow,
     af_window |-> NullWindow, buffer_count |-> 0]

\* window_load: every value within [0, 1] (0..10 tenths) and four of them
RECURSIVE WindowValsOk(_)
WindowValsOk(vals) ==
    IF vals = << >> THEN TRUE
    ELSE IF Head(vals) < 0 \/ Head(vals) > 10 THEN FALSE
    ELSE WindowValsOk(Tail(vals))

\* faulty variant: the range and the count are not checked
WindowLoadAccept(vals) == TRUE

WindowLoad(vals) == WindowValsOk(vals) /\ Len(vals) = 4

\* params->buffer_count = 6 (parameters.c:155)
FinishDecode(p) == [p EXCEPT !.buffer_count = BufferCount]

\* keys whose value is a window: ROI (parameters.c:72) and AfWindow
\* (parameters.c:134)
WindowKeys == {"ROI", "AfWindow"}

\* params->roi or params->af_window is given the value w
SetWindow(p, key, w) ==
    IF key = "ROI" THEN [p EXCEPT !.roi = w] ELSE [p EXCEPT !.af_window = w]

\* malloc(sizeof(window_t)): a rectangle whose fields are not written yet
AllocWindow == [state |-> "alloc", vals |-> << >>]

\* a pointer whose rectangle has been passed to free()
FreedWindow == [state |-> "freed", vals |-> << >>]

\* parameters_destroy (parameters.c:167-204): every pointer that is not NULL
\* is freed and keeps its value
ParametersDestroy(p) ==
    [p EXCEPT !.roi = IF @.state = "null" THEN @ ELSE FreedWindow,
              !.af_window = IF @.state = "null" THEN @ ELSE FreedWindow]

\* faulty variant: an entry with an unknown key wipes what was decoded so far
UnrecognizedResets(p, t) == ZeroParams

\* an entry whose key matches none of the strcmp calls (parameters.c:40-150):
\* no branch is taken and the set stays as it is
Unrecognized(p, t) == p

\* the loop of parameters_unserialize over the entries left; the result is
\* the return value and the contents of *params when the function returns
RECURSIVE UnserializeFrom(_, _)
UnserializeFrom(p, toks) ==
    IF toks = << >> THEN [ok |-> TRUE, p |-> FinishDecode(p)]
    ELSE LET t == Head(toks)
         IN  CASE t.key \in DynKeySet ->
                    UnserializeFrom([p EXCEPT !.dyn[t.key] = t.val], Tail(toks))
               [] t.key = "Width" ->
                    UnserializeFrom([p EXCEPT !.width = t.val], Tail(toks))
               [] t.key \in WindowKeys ->
                    IF t.win = << >>
                    THEN UnserializeFrom(p, Tail(toks))
                    ELSE IF WindowLoad(t.win)
                    THEN UnserializeFrom(
                             SetWindow(p, t.key, [state |-> "set", vals |-> t.win]),
                             Tail(toks))
                    \* goto failed: parameters_destroy frees the rectangles
                    \* and leaves the pointers in place
                    ELSE [ok |-> FALSE,
                          p |-> ParametersDestroy(SetWindow(p, t.key, AllocWindow))]
               [] OTHER -> UnserializeFrom(Unrecognized(p, t), Tail(toks))

ParametersUnserialize(msg) == UnserializeFrom(ZeroParams, msg)

\* a message is malformed when it holds a window that is not four values
\* within [0, 1]
RECURSIVE Malformed(_)
Malformed(msg) ==
    IF msg = << >> THEN FALSE
    ELSE \/ /\ Head(msg).key \in WindowKeys
            /\ Head(msg).win # << >>
            /\ ~(Len(Head(msg).win) = 4 /\ \A i \in 1..Len(Head(msg).win) :
                     Head(msg).win[i] \in 0..10)
         \/ Malformed(Tail(msg))

\* the width of the session, fixed at startup
SessionWidth == 1920

\* the dynamic entries of a message, all with value v
DynTokens(v) == [i \in DOMAIN DynKeys |-> Token(DynKeys[i], v, << >>)]

\* reconfiguration messages: dynamic changes alone; with a valid window; and
\* with a window out of range in the middle of the entries
MsgPlain(v) == <<Token("Width", SessionWidth, << >>)>> \o DynTokens(v)
MsgWindow(v) == MsgPlain(v) \o <<Token("ROI", 0, <<0, 0, 5, 10>>)>>
MsgBadWindow(v) ==
    SubSeq(MsgPlain(v), 1, 5) \o <<Token("ROI", 0, <<0, 0, 11, 10>>)>>
    \o SubSeq(MsgPlain(v), 6, Len(MsgPlain(v)))

ReconfMessages(v) == {MsgPlain(v), MsgWindow(v), MsgBadWindow(v)}

\* the Parameter Set main starts with
InitialParams == ParametersUnserialize(MsgPlain(0)).p

(***************************************************************************)
(* The control list (libcamera ControlList): control id -> value.          *)
(***************************************************************************)
\* the controls fill_dynamic_controls sets, in order, each with the key of
\* the field it is computed from
DynamicControls ==
    <<[id |-> "Brightness", key |-> "Brightness"],
      [id |-> "Contrast", key |-> "Contrast"],
      [id |-> "Saturation", key |-> "Saturation"],
      [id |-> "Sharpness", key |-> "Sharpness"],
      [id |-> "AeExposureMode", key |-> "Exposure"],
      [id |-> "AwbMode", key |-> "AWB"],
      [id |-> "NoiseReductionMode", key |-> "Denoise"],
      [id |-> "ExposureTime", key |-> "Shutter"],
      [id |-> "AeMeteringMode", key |-> "Metering"],
      [id |-> "AnalogueGain", key |-> "Gain"],
      [id |-> "ExposureValue", key |-> "EV"],
      [id |-> "FrameDurationLimits", key |-> "FPS"]>>

ControlIds == {DynamicControls[i].id : i \in DOMAIN DynamicControls}

\* ControlList after clear()
EmptyControls == [id \in {} |-> 0]

\* ctrls->set(id, v)
ControlSet(list, id, v) ==
    [c \in DOMAIN list \cup {id} |-> IF c = id THEN v ELSE list[c]]

\* the list fill_dynamic_controls leaves when it starts from an empty one
RECURSIVE FillFrom(_, _, _)
FillFrom(list, p, i) ==
    IF i > Len(DynamicControls) THEN list
    ELSE FillFrom(ControlSet(list, DynamicControls[i].id,
                             p.dyn[DynamicControls[i].key]), p, i + 1)

FullControls(p) == FillFrom(EmptyControls, p, 1)

NoRequest == [req |-> 0, buf |-> 0, controls |-> EmptyControls, at |-> 0]

\* no decoder call under way
NoCall == [fn |-> "none"]

DecIdle ==
    /\ decPc = "idle"
    /\ decIn = NoCall
    /\ decOut = NoCall

\* no output slot is dequeued
NoSlot == [index |-> -1, length |-> 0]

\* the encode session is not followed
RingIdle ==
    /\ inRet = << >>
    /\ capQ = << >>
    /\ capReady = << >>
    /\ slotMem = << >>
    /\ ringPc = "none"
    /\ ringHeld = NoSlot
    /\ encLog = << >>

\* the capture side before camera_create
CapIdle ==
    /\ requests = {}
    /\ sensorQ = << >>
    /\ rcPc = "idle"
    /\ rcReq = NoRequest
    /\ ctrls = EmptyControls
    /\ ctrls_mutex = "free"
    /\ supPc = "wait"
    /\ supMsg = << >>
    /\ supAt = 0
    /\ unsOk = TRUE
    /\ live = ZeroParams
    /\ fresh = ZeroParams
    /\ reloadLog = << >>
    /\ reloadsDone = 0
    /\ nMsgs = 0
    /\ livePrev = ZeroParams
    /\ rcLog = << >>
    /\ errLog = << >>

\* ------------------------------------------------------------ specification

ChIdle ==
    /\ chMsgs = << >>
    /\ chWr = [msg |-> 1, call |-> 1, open |-> TRUE]
    /\ chLog = << >>
    /\ chPipe = << >>
    /\ chRdPc = "idle"
    /\ chN = LE(0, PrefixSize)
    /\ chGot = 0
    /\ chOut = << >>

ProcInit ==
    /\ mainPc = "lock"
    /\ mainErr = << >>
    /\ retCode = 0
    /\ done = << >>
    /\ mutex = "free"
    /\ drainPc = "none"
    /\ ts_initialized = FALSE
    /\ start_ts = U64(0)
    /\ cur_buffer = 0
    /\ drainBuf = NoBuf
    /\ hwIn = << >>
    /\ hwDone = 0
    /\ hwRet = 0
    /\ hwOut = << >>
    /\ camRunning = FALSE
    /\ nCaptured = 0
    /\ nDropped = 0
    /\ stream = << >>
    /\ nFrames = 0
    /\ lockedWrites = TRUE
    /\ absTs = << >>
    /\ cbTs = << >>
    /\ startTsWrites = 0
    /\ earlyAU = FALSE
    /\ procState = "running"
    /\ exitCode = 0
    /\ exitBy = "none"

Init == ProcInit /\ ChIdle /\ CapIdle /\ DecIdle /\ RingIdle /\ stopReq = "none"

Next ==
    \/ MainLock
    \/ MainParametersLoad
    \/ MainCameraCreate
    \/ MainEncoderCreate
    \/ MainCameraStart
    \/ MainInitSiglistener
    \/ MainWriteError
    \/ MainWriteReady
    \/ MainUnlock
    \/ MainSigwait
    \/ MainReturn
    \/ OnRequestComplete
    \/ HwEncode
    \/ HwReturn
    \/ DrainPollFail
    \/ DrainPollIn
    \/ DrainDqInOk
    \/ DrainDqInFail
    \/ DrainDqOutOk
    \/ DrainDqOutFail
    \/ DrainLock
    \/ DrainWrite
    \/ DrainUnlock
    \/ DrainRequeueOk
    \/ DrainRequeueFail

Spec == Init /\ [][Next]_vars

(***************************************************************************)
(* The byte stream as the parent sees it.                                  *)
(***************************************************************************)
FrameIds == 1..nFrames

\* the places in the stream of the write() calls of frame f
Positions(f) == {i \in DOMAIN stream : stream[i].f = f}

RECURSIVE Concat(_)
Concat(ss) == IF ss = << >> THEN << >> ELSE Head(ss).bytes \o Concat(Tail(ss))

\* the bytes of frame f, in the order written
FrameBytes(f) == Concat(SelectSeq(stream, LAMBDA e : e.f = f))

\* the bytes of frame f lie side by side in the stream: no write() of another
\* frame falls between two of its own
Contiguous(f) ==
    \A i \in Positions(f), k \in Positions(f) :
        \A j \in i..k : stream[j].f = f

\* frame f is complete: a length prefix and exactly that many bytes after it
Whole(f) ==
    LET bs == FrameBytes(f)
    IN  /\ Len(bs) >= PrefixSize
        /\ Dec(SubSeq(bs, 1, PrefixSize)) = Len(bs) - PrefixSize

\* the tag of frame f, 0 while it has not been written
FrameTag(f) ==
    LET bs == FrameBytes(f)
    IN  IF Len(bs) > PrefixSize THEN bs[PrefixSize + 1] ELSE 0

\* the bytes of frame f after the prefix and the tag
FramePayload(f) ==
    LET bs == FrameBytes(f)
    IN  SubSeq(bs, PrefixSize + 2, Len(bs))

\* a thread is between the first and the last write() of a frame
MidFrame(self) ==
    CASE self = "main"  -> mainPc \in {"err_body", "ready_body"}
      [] self = "drain" -> drainPc \in {"w_tag", "w_ts", "w_data"}

Threads == {"main", "drain"}

\* the startup call that failed, "none" when none has
FailedStep ==
    IF done # << >> /\ ~done[Len(done)][2] THEN done[Len(done)][1] ELSE "none"

StartupOrder ==
    <<"parameters_load", "camera_create", "encoder_create", "camera_start",
      "init_siglistener">>

(***************************************************************************)
(* C1.  Every write() of an outbound frame is made by the holder of        *)
(* pipe_mutex, a thread between the first and the last write() of a frame  *)
(* holds the mutex, and the stream is a concatenation of whole frames: the *)
(* bytes of each frame lie side by side, every frame but the last begun is *)
(* complete, and the last one is complete or still being written.          *)
(***************************************************************************)
C1_FrameAtomicity ==
    /\ lockedWrites
    /\ \A t \in Threads : MidFrame(t) => mutex = t
    /\ \A f \in FrameIds :
          /\ Contiguous(f)
          /\ f < nFrames => Whole(f)
          /\ f = nFrames => (Whole(f) \/ \E t \in Threads : MidFrame(t))

\* witness: an access unit frame follows the ready frame and a further frame
\* is being written while main has long released the mutex
C1_Witness ==
    /\ nFrames >= 3
    /\ FrameTag(1) = TagR /\ FrameTag(2) = TagB /\ Whole(2)
    /\ MidFrame("drain")

(***************************************************************************)
(* C2.  No 'b' frame, and no byte of one, is written before the 'r' frame  *)
(* is complete, also when the access unit was handed to on_encoder_output  *)
(* while main was still starting up.                                       *)
(***************************************************************************)
C2_ReadyBeforeAccessUnits ==
    /\ \A f \in FrameIds :
          FrameTag(f) = TagB =>
             \E g \in FrameIds :
                /\ FrameTag(g) = TagR /\ Whole(g)
                /\ \A i \in Positions(g), j \in Positions(f) : i < j
    /\ drainPc \in {"w_len", "w_tag", "w_ts", "w_data", "cb_unlock"} =>
          \E g \in FrameIds : FrameTag(g) = TagR /\ Whole(g)

\* witness: the access unit was produced during startup, and its frame is on
\* the pipe after the ready frame
C2_Witness ==
    /\ earlyAU
    /\ Len(cbTs) = 1
    /\ FrameTag(1) = TagR /\ Whole(1)
    /\ FrameTag(2) = TagB /\ Whole(2)

(***************************************************************************)
(* C3.  The startup calls are made in the order parameters_load,           *)
(* camera_create, encoder_create, camera_start (then init_siglistener), a  *)
(* call is made only if every earlier one returned true, the encoder       *)
(* session and the capture session exist only after their calls, and the   *)
(* 'r' frame is written at most once and only after all of them succeeded. *)
(***************************************************************************)
C3_StartupOrder ==
    /\ Len(done) <= Len(StartupOrder)
    /\ \A i \in DOMAIN done :
          /\ done[i][1] = StartupOrder[i]
          /\ i < Len(done) => done[i][2]
    /\ drainPc # "none" => Len(done) >= 3 /\ done[3][2]
    /\ camRunning => Len(done) >= 4
    /\ Cardinality({f \in FrameIds : FrameTag(f) = TagR}) <= 1
    /\ \A f \in FrameIds :
          (FrameTag(f) = TagR \/ (mainPc = "ready_body" /\ f = nFrames)) =>
             /\ Len(done) = Len(StartupOrder)
             /\ \A i \in DOMAIN done : done[i][2]
             /\ camRunning /\ drainPc # "none"

\* witness: the ready frame is on the pipe after five successful calls
C3_Witness ==
    /\ \E f \in FrameIds : FrameTag(f) = TagR /\ Whole(f)
    /\ Len(done) = Len(StartupOrder)
    /\ mainPc = "sigwait"

(***************************************************************************)
(* C4.  Once the process has exited after parameters_load, camera_create,  *)
(* encoder_create or camera_start failed, the pipe holds exactly one       *)
(* frame, a complete 'e' frame with the text main formatted for that call, *)
(* no 'r' frame, and the exit status is not 0.                             *)
(***************************************************************************)
C4_StartupFailureReported ==
    (procState = "exited" /\ FailedStep # "none") =>
        /\ exitCode # 0
        /\ nFrames = 1
        /\ Whole(1)
        /\ FrameTag(1) = TagE
        /\ FramePayload(1) = mainErr
        /\ \E t \in ErrTexts(FailedStep) : mainErr = Fmt(FailedStep) \o t

(***************************************************************************)
(* C5 as claimed.  The exit status tells the fatal startup conditions      *)
(* apart: after a failed startup call it is not 0 and differs from the     *)
(* status main returns for each of the other conditions; after a clean     *)
(* stop it is 0.                                                           *)
(***************************************************************************)
FatalConditions == {"parameters_load", "camera_create", "encoder_create"}

C6_NoSilentFailure ==
    (procState = "exited" /\ exitCode # ExitClean) =>
        \E f \in FrameIds : FrameTag(f) = TagE /\ Whole(f)

(***************************************************************************)
(* C10.  start_ts is assigned exactly once, with the timestamp of the      *)
(* first dequeued access unit; the first callback receives 0 and the k-th  *)
(* receives the k-th absolute timestamp minus the first, computed on       *)
(* uint64_t; for the absolute timestamps 1000, 1500, 2200 the callbacks    *)
(* receive 0, 500, 1200.                                                   *)
(***************************************************************************)
C10_RelativeTimestamps ==
    /\ Len(cbTs) = Len(absTs)
    /\ startTsWrites = (IF absTs = << >> THEN 0 ELSE 1)
    /\ ts_initialized = (absTs # << >>)
    /\ absTs # << >> => start_ts = U64(absTs[1]) /\ cbTs[1] = U64(0)
    /\ \A k \in DOMAIN cbTs :
          /\ Add64(cbTs[k], U64(absTs[1])) = U64(absTs[k])
          /\ absTs[k] >= absTs[1] => cbTs[k] = U64(absTs[k] - absTs[1])
    /\ absTs = <<1000, 1500, 2200>> => cbTs = <<U64(0), U64(500), U64(1200)>>

\* witness: the three access units of the example have been dequeued
C10_Witness ==
    /\ absTs = <<1000, 1500, 2200>>
    /\ cbTs = <<U64(0), U64(500), U64(1200)>>
    /\ startTsWrites = 1

(***************************************************************************)
(* The channel alone: a writer sends messages with pipe_write_ready,       *)
(* pipe_write_error and pipe_write_buf, one write() at a time, and a       *)
(* reader calls pipe_read again and again on the other end.                *)
(***************************************************************************)
\* an error text of the given length, without NUL characters
TextOf(len) == [i \in 1..len |-> 33 + (i % 90)]

\* an access unit of the given length
DataOf(len) == [i \in 1..len |-> i % 256]

\* lengths of the error texts sent: around the 254 characters the buffer holds
TextLens == {0, 1, 254, 255, 256}

\* lengths of the access units sent
DataLens == {0, 1, 256}

Msg(tag, text, ts, data) == [tag |-> tag, text |-> text, ts |-> ts, data |-> data]

Messages ==
    {Msg(TagR, << >>, U64(0), << >>)}
    \cup {Msg(TagE, TextOf(l), U64(0), << >>) : l \in TextLens}
    \cup {Msg(TagB, << >>, U64(1200), DataOf(l)) : l \in DataLens}

\* the write() calls made for a message
WriterCalls(m) ==
    CASE m.tag = TagR -> PipeWriteReady
      [] m.tag = TagE -> PipeWriteError(m.text)
      [] m.tag = TagB -> PipeWriteBuf(m.ts, m.data)

\* one write() of the writer: the bytes enter the pipe
ChWrite ==
    /\ chWr.open
    /\ chWr.msg <= Len(chMsgs)
    /\ LET calls == WriterCalls(chMsgs[chWr.msg])
           bytes == calls[chWr.call]
       IN  /\ chPipe' = chPipe \o bytes
           /\ chLog' = IF chWr.call = 1
                       THEN Append(chLog, bytes)
                       ELSE [chLog EXCEPT ![chWr.msg] = @ \o bytes]
           /\ chWr' = IF chWr.call < Len(calls)
                      THEN [chWr EXCEPT !.call = @ + 1]
                      ELSE [chWr EXCEPT !.msg = @ + 1, !.call = 1]
    /\ UNCHANGED <<chMsgs, chRdPc, chN, chGot, chOut, procVars, capVars>>

\* the writer closes its end of the pipe, between two write() calls or after
\* the last: once the bytes in the pipe are consumed, read() returns 0
ChClose ==
    /\ chWr.open
    /\ chWr' = [chWr EXCEPT !.open = FALSE]
    /\ UNCHANGED <<chMsgs, chLog, chPipe, chRdPc, chN, chGot, chOut, procVars, capVars>>

\* read() has nothing more to return: the pipe is empty and its writer is gone
AtEof == chPipe = << >> /\ ~chWr.open

\* the reader is followed up to its first call that meets the end of the file
SawEof == chOut # << >> /\ chOut[Len(chOut)].got = 0

\* what an uninitialised byte may hold
GarbageBytes == {0, 1}

\* pipe.c:38-39, uint32_t n; read(fd, &n, 4): read() blocks while the pipe is
\* empty and its writer open, and returns the bytes present, at most 4, none
\* at the end of the file; the bytes of n it does not store keep an
\* indeterminate value
PipeReadN ==
    /\ chRdPc = "idle"
    /\ ~SawEof
    /\ chPipe # << >> \/ AtEof
    /\ LET k == Min(PrefixSize, Len(chPipe))
       IN  /\ \E g \in GarbageBytes :
                 chN' = [i \in 1..PrefixSize |-> IF i <= k THEN chPipe[i] ELSE g]
           /\ chGot' = k
           /\ chPipe' = SubSeq(chPipe, k + 1, Len(chPipe))
    /\ chRdPc' = "body"
    /\ UNCHANGED <<chMsgs, chWr, chLog, chOut, procVars, capVars>>

\* number of bytes read(fd, *pbuf, n) stores, given the bytes in the pipe and
\* the four bytes of n: the smaller of n and the number present.  A pipe holds
\* fewer than 2^16 bytes here, so an n with a non-zero upper half exceeds it
ReadCount(n, avail) ==
    IF n[3] # 0 \/ n[4] # 0 THEN avail ELSE Min(Dec(n), avail)

\* pipe.c:41-43, *pbuf = malloc(n); read(fd, *pbuf, n); return n: read()
\* returns at once for n = 0, else blocks while the pipe is empty and its
\* writer open, and returns the bytes present, at most n, none at the end of
\* the file
PipeReadBody ==
    /\ chRdPc = "body"
    /\ LET k == ReadCount(chN, Len(chPipe))
       IN  /\ chN = LE(0, PrefixSize) \/ chPipe # << >> \/ AtEof
           /\ chOut' = Append(chOut, [n |-> chN, got |-> chGot,
                                      buf |-> SubSeq(chPipe, 1, k)])
           /\ chPipe' = SubSeq(chPipe, k + 1, Len(chPipe))
    /\ chRdPc' = "idle"
    /\ UNCHANGED <<chMsgs, chWr, chLog, chN, chGot, procVars, capVars>>

InitPipe ==
    /\ ProcInit
    /\ CapIdle
    /\ DecIdle
    /\ RingIdle
    /\ stopReq = "none"
    /\ chMsgs \in UNION {[1..k -> Messages] : k \in 1..MaxMsgs}
    /\ chWr = [msg |-> 1, call |-> 1, open |-> TRUE]
    /\ chLog = << >>
    /\ chPipe = << >>
    /\ chRdPc = "idle"
    /\ chN = LE(0, PrefixSize)
    /\ chGot = 0
    /\ chOut = << >>

NextPipe ==
    \/ ChWrite
    \/ ChClose
    \/ PipeReadN
    \/ PipeReadBody

SpecPipe == InitPipe /\ [][NextPipe]_vars

\* message i has been written completely
Sent(i) == i < chWr.msg

\* the bytes a reader is to receive for a message: the tag, then the payload
Intended(m) ==
    CASE m.tag = TagR -> <<TagR>>
      [] m.tag = TagE -> <<TagE>> \o m.text
      [] m.tag = TagB -> <<TagB>> \o m.ts \o m.data

(***************************************************************************)
(* C7.  For every frame written, the length prefix equals the number of    *)
(* bytes written after it: 1 for 'r'; for 'e', 1 plus the length of the    *)
(* text written, which is the text cut to 254 characters; for 'b', 1 + 8   *)
(* + n with n the size of the access unit.                                 *)
(***************************************************************************)
C7_PrefixEqualsLength ==
    \A i \in DOMAIN chLog :
        Sent(i) =>
            LET bs     == chLog[i]
                m      == chMsgs[i]
                prefix == Dec(SubSeq(bs, 1, PrefixSize))
                after  == SubSeq(bs, PrefixSize + 1, Len(bs))
            IN  /\ prefix = Len(after)
                /\ after[1] = m.tag
                /\ m.tag = TagR => prefix = 1
                /\ m.tag = TagE =>
                      /\ prefix = 1 + Min(Len(m.text), ErrBufSize - 2)
                      /\ Tail(after) = SubSeq(m.text, 1, prefix - 1)
                /\ m.tag = TagB =>
                      /\ prefix = 1 + TsSize + Len(m.data)
                      /\ Tail(after) = m.ts \o m.data

\* witness: an error text longer than the buffer has been written, cut
C7_Witness ==
    \E i \in DOMAIN chLog :
        /\ Sent(i)
        /\ chMsgs[i].tag = TagE
        /\ Len(chMsgs[i].text) = ErrBufSize
        /\ Len(chLog[i]) = PrefixSize + ErrBufSize - 1

(***************************************************************************)
(* C8.  Every frame pipe_read returns is complete: the four bytes of the   *)
(* prefix were read, and all n bytes the prefix announces are in the       *)
(* buffer.                                                                 *)
(***************************************************************************)
C8_NoPartialFrame ==
    \A i \in DOMAIN chOut :
        /\ chOut[i].got = PrefixSize
        /\ LE(Len(chOut[i].buf), PrefixSize) = chOut[i].n

(***************************************************************************)
(* C9.  Round trip: the i-th frame pipe_read returns is the i-th message   *)
(* sent, with the same tag and exactly the same payload bytes.             *)
(***************************************************************************)
C9_RoundTrip ==
    \A i \in DOMAIN chOut :
        /\ i <= Len(chMsgs)
        /\ chOut[i].n = LE(Len(Intended(chMsgs[i])), PrefixSize)
        /\ chOut[i].buf = Intended(chMsgs[i])

(***************************************************************************)
(* The capture session in steady state: the completion path                *)
(* (on_request_complete, camera.cpp) and the reconfiguration of the live   *)
(* session (camera_reload_params, parameters_unserialize).                 *)
(***************************************************************************)
\* faulty variant: a lock that does not wait for the holder to release it
CtrlsLockNoWait(self) == ctrls_mutex' = self

\* std::lock_guard<std::mutex> lock(camp->ctrls_mutex)
CtrlsLock(self) ==
    /\ ctrls_mutex = "free"
    /\ ctrls_mutex' = self

\* the end of the lock_guard's scope
CtrlsUnlock(self) == ctrls_mutex' = "free"

supVars == <<supPc, supMsg, supAt, unsOk, live, fresh, livePrev, reloadLog,
             reloadsDone, nMsgs, errLog>>

\* everything of the process that neither the completion path nor the
\* reconfiguration touches
sessionVars == <<mainVars, mutex, drainPc, ts_initialized, start_ts, drainBuf,
                 hwDone, hwRet, hwOut, camRunning, pipeVars, tsVars, exitVars,
                 chVars, decVars, stopReq, ringVars>>

\* completions delivered so far, cancelled ones included
Delivered == {i \in DOMAIN rcLog : rcLog[i].ev \in {"complete", "cancelled"}}

\* the capture timestamp of the k-th frame, in microseconds
CaptureTs(k) == 1000 + 500 * k

\* faulty variant: a cancelled request is handed back to the sensor
RcCancelledRequeue ==
    /\ Running /\ camRunning /\ rcPc = "idle"
    /\ sensorQ # << >>
    /\ Cardinality(Delivered) < MaxCompletions
    /\ sensorQ' = Append(Tail(sensorQ), Head(sensorQ))
    /\ rcLog' = Append(rcLog, [ev |-> "cancelled", req |-> Head(sensorQ).req,
                               buf |-> Head(sensorQ).buf])
    /\ UNCHANGED <<requests, rcPc, rcReq, ctrls, ctrls_mutex, supVars,
                   cur_buffer, hwIn, nCaptured, nDropped, sessionVars>>

\* camera.cpp:263-266, the request completed with status RequestCancelled:
\* on_request_complete returns at once
RcCancelled ==
    /\ Running /\ camRunning /\ rcPc = "idle"
    /\ sensorQ # << >>
    /\ Cardinality(Delivered) < MaxCompletions
    /\ sensorQ' = Tail(sensorQ)
    /\ rcLog' = Append(rcLog, [ev |-> "cancelled", req |-> Head(sensorQ).req,
                               buf |-> Head(sensorQ).buf])
    /\ UNCHANGED <<requests, rcPc, rcReq, ctrls, ctrls_mutex, supVars,
                   cur_buffer, hwIn, nCaptured, nDropped, sessionVars>>

\* camera.cpp:263-270, a request completed: its buffer is looked up
RcBegin ==
    /\ Running /\ camRunning /\ rcPc = "idle"
    /\ sensorQ # << >>
    /\ Cardinality(Delivered) < MaxCompletions
    /\ sensorQ' = Tail(sensorQ)
    /\ rcReq' = [Head(sensorQ) EXCEPT !.at = 0]
    /\ rcPc' = "frame_cb"
    /\ rcLog' = Append(rcLog, [ev |-> "complete", req |-> Head(sensorQ).req,
                               buf |-> Head(sensorQ).buf])
    /\ UNCHANGED <<requests, ctrls, ctrls_mutex, supVars, cur_buffer, hwIn,
                   nCaptured, nDropped, sessionVars>>

\* faulty variant: the callback reads the Parameter Set that the decoder is
\* writing instead of the live one
RcFrameCbReadsFresh ==
    /\ Running /\ rcPc = "frame_cb"
    /\ \E ok \in BOOLEAN :
          /\ EncoderEncode(CaptureTs(nCaptured), ok)
          /\ rcLog' = Append(rcLog, [ev |-> "frame_cb", req |-> rcReq.req,
                                     buf |-> rcReq.buf, index |-> cur_buffer,
                                     accepted |-> ok,
                                     buffer_count |-> fresh.buffer_count])
    /\ nCaptured' = nCaptured + 1
    /\ rcPc' = "reuse"
    /\ UNCHANGED <<requests, sensorQ, rcReq, ctrls, ctrls_mutex, supVars,
                   sessionVars>>

\* camera.cpp:272-278, camp->frame_cb(...): on_frame (main.c:49-51) calls
\* encoder_encode, which reads params->buffer_count and queues the frame
RcFrameCb ==
    /\ Running /\ rcPc = "frame_cb"
    /\ \E ok \in BOOLEAN :
          /\ EncoderEncode(CaptureTs(nCaptured), ok)
          /\ rcLog' = Append(rcLog, [ev |-> "frame_cb", req |-> rcReq.req,
                                     buf |-> rcReq.buf, index |-> cur_buffer,
                                     accepted |-> ok,
                                     buffer_count |-> live.buffer_count])
    /\ nCaptured' = nCaptured + 1
    /\ rcPc' = "reuse"
    /\ UNCHANGED <<requests, sensorQ, rcReq, ctrls, ctrls_mutex, supVars,
                   sessionVars>>

\* faulty variant: reuse() without ReuseBuffers detaches the buffer
ReuseDefault(r) == [r EXCEPT !.controls = EmptyControls, !.buf = 0]

\* request->reuse(Request::ReuseFlag::ReuseBuffers): the request is reset, its
\* controls are emptied and its buffer stays attached
Reuse(r) == [r EXCEPT !.controls = EmptyControls]

\* camera.cpp:280
RcReuse ==
    /\ Running /\ rcPc = "reuse"
    /\ rcReq' = Reuse(rcReq)
    /\ rcPc' = "lock"
    /\ UNCHANGED <<requests, sensorQ, ctrls, ctrls_mutex, supVars, rcLog,
                   cur_buffer, hwIn, nCaptured, nDropped, sessionVars>>

\* camera.cpp:283
RcLock ==
    /\ Running /\ rcPc = "lock"
    /\ CtrlsLock("rc")
    /\ rcPc' = "copy"
    /\ UNCHANGED <<requests, sensorQ, rcReq, ctrls, supVars, rcLog,
                   cur_buffer, hwIn, nCaptured, nDropped, sessionVars>>

\* camera.cpp:284, request->controls() = *camp->ctrls
RcCopy ==
    /\ Running /\ rcPc = "copy"
    /\ rcReq' = [rcReq EXCEPT !.controls = ctrls, !.at = reloadsDone]
    /\ rcPc' = "clear"
    /\ UNCHANGED <<requests, sensorQ, ctrls, ctrls_mutex, supVars, rcLog,
                   cur_buffer, hwIn, nCaptured, nDropped, sessionVars>>

\* faulty variant: the pending list is left as it is after the copy
RcNoClear ==
    /\ Running /\ rcPc = "clear"
    /\ rcPc' = "unlock"
    /\ UNCHANGED <<requests, sensorQ, rcReq, ctrls, ctrls_mutex, supVars, rcLog,
                   cur_buffer, hwIn, nCaptured, nDropped, sessionVars>>

\* camera.cpp:285, camp->ctrls->clear()
RcClear ==
    /\ Running /\ rcPc = "clear"
    /\ ctrls' = EmptyControls
    /\ rcPc' = "unlock"
    /\ UNCHANGED <<requests, sensorQ, rcReq, ctrls_mutex, supVars, rcLog,
                   cur_buffer, hwIn, nCaptured, nDropped, sessionVars>>

\* camera.cpp:286
RcUnlock ==
    /\ Running /\ rcPc = "unlock"
    /\ CtrlsUnlock("rc")
    /\ rcPc' = "queue"
    /\ UNCHANGED <<requests, sensorQ, rcReq, ctrls, supVars, rcLog,
                   cur_buffer, hwIn, nCaptured, nDropped, sessionVars>>

\* faulty variant: a new Request object is made for every resubmission
FreshRequest(r) == [r EXCEPT !.req = r.req + BufferCount]

\* the Request object handed back to the sensor: the one that completed
Recycled(r) == r

\* camera.cpp:288, camp->camera->queueRequest(request)
RcQueue ==
    /\ Running /\ rcPc = "queue"
    /\ LET r == Recycled(rcReq)
       IN  /\ sensorQ' = Append(sensorQ, [r EXCEPT !.at = 0])
           /\ rcLog' = Append(rcLog, [ev |-> "queue", req |-> r.req,
                                      buf |-> r.buf, controls |-> r.controls,
                                      at |-> r.at, done |-> reloadsDone])
    /\ rcReq' = NoRequest
    /\ rcPc' = "idle"
    /\ UNCHANGED <<requests, ctrls, ctrls_mutex, supVars, cur_buffer, hwIn,
                   nCaptured, nDropped, sessionVars>>

rcVars == <<requests, sensorQ, rcPc, rcReq, rcLog, cur_buffer, hwIn, nCaptured,
            nDropped>>

\* a reconfiguration message has been read from the channel
SupReceive ==
    /\ Running /\ supPc = "wait"
    /\ nMsgs < MaxReconf
    /\ \E m \in ReconfMessages(nMsgs + 1) : supMsg' = m
    /\ nMsgs' = nMsgs + 1
    /\ livePrev' = live
    /\ supPc' = "decode"
    /\ UNCHANGED <<supAt, unsOk, live, fresh, reloadLog, reloadsDone, errLog,
                   ctrls, ctrls_mutex, rcVars, sessionVars>>

\* a new Parameter Set is built from the message: parameters_unserialize
\* (parameters.c:24-165) on a set of its own
SupDecode ==
    /\ Running /\ supPc = "decode"
    /\ LET r == ParametersUnserialize(supMsg)
       IN  /\ fresh' = r.p
           /\ unsOk' = r.ok
           /\ supPc' = IF r.ok THEN "swap" ELSE "report"
    /\ UNCHANGED <<supMsg, supAt, live, livePrev, reloadLog, reloadsDone, nMsgs,
                   errLog, ctrls, ctrls_mutex, rcVars, sessionVars>>

\* the new Parameter Set takes the place of the live one
SupSwap ==
    /\ Running /\ supPc = "swap"
    /\ live' = fresh
    /\ supPc' = "reload_lock"
    /\ UNCHANGED <<supMsg, supAt, unsOk, fresh, livePrev, reloadLog, reloadsDone,
                   nMsgs, errLog, ctrls, ctrls_mutex, rcVars, sessionVars>>

\* the decode error is reported and the live Parameter Set is kept
SupReport ==
    /\ Running /\ supPc = "report"
    /\ errLog' = Append(errLog, nMsgs)
    /\ supPc' = "wait"
    /\ UNCHANGED <<supMsg, supAt, unsOk, live, fresh, livePrev, reloadLog,
                   reloadsDone, nMsgs, ctrls, ctrls_mutex, rcVars, sessionVars>>

\* camera.cpp:481-484, camera_reload_params takes ctrls_mutex
ReloadLock ==
    /\ Running /\ supPc = "reload_lock"
    /\ CtrlsLock("sup")
    /\ reloadLog' = Append(reloadLog, live)
    /\ supAt' = 1
    /\ supPc' = "fill"
    /\ UNCHANGED <<supMsg, unsOk, live, fresh, livePrev, reloadsDone, nMsgs,
                   errLog, ctrls, rcVars, sessionVars>>

\* faulty variant: the reload also throws away the requests queued at the
\* sensor, as a restart of the capture session would
ReloadSetRestart ==
    /\ Running /\ supPc = "fill"
    /\ ctrls' = ControlSet(ctrls, DynamicControls[supAt].id,
                           live.dyn[DynamicControls[supAt].key])
    /\ sensorQ' = << >>
    /\ IF supAt < Len(DynamicControls)
       THEN supAt' = supAt + 1 /\ UNCHANGED supPc
       ELSE supAt' = 0 /\ supPc' = "reload_unlock"
    /\ UNCHANGED <<supMsg, unsOk, live, fresh, livePrev, reloadLog, reloadsDone,
                   nMsgs, errLog, ctrls_mutex, requests, rcPc, rcReq, rcLog,
                   cur_buffer, hwIn, nCaptured, nDropped, sessionVars>>

\* camera.cpp:485 with 301-371, one ctrls->set(...) of fill_dynamic_controls
ReloadSet ==
    /\ Running /\ supPc = "fill"
    /\ ctrls' = ControlSet(ctrls, DynamicControls[supAt].id,
                           live.dyn[DynamicControls[supAt].key])
    /\ IF supAt < Len(DynamicControls)
       THEN supAt' = supAt + 1 /\ UNCHANGED supPc
       ELSE supAt' = 0 /\ supPc' = "reload_unlock"
    /\ UNCHANGED <<supMsg, unsOk, live, fresh, livePrev, reloadLog, reloadsDone,
                   nMsgs, errLog, ctrls_mutex, rcVars, sessionVars>>

\* camera.cpp:486, camera_reload_params returns
ReloadUnlock ==
    /\ Running /\ supPc = "reload_unlock"
    /\ CtrlsUnlock("sup")
    /\ reloadsDone' = reloadsDone + 1
    /\ supPc' = "wait"
    /\ UNCHANGED <<supMsg, supAt, unsOk, live, fresh, livePrev, reloadLog, nMsgs,
                   errLog, ctrls, rcVars, sessionVars>>

\* the process after main has written the ready frame and released
\* pipe_mutex: every startup call has succeeded and output_thread polls
ProcStarted ==
    /\ mainPc = "sigwait"
    /\ mainErr = << >>
    /\ retCode = 0
    /\ done = [i \in DOMAIN StartupOrder |-> <<StartupOrder[i], TRUE>>]
    /\ mutex = "free"
    /\ drainPc = "poll"
    /\ ts_initialized = FALSE
    /\ start_ts = U64(0)
    /\ cur_buffer = 0
    /\ drainBuf = NoBuf
    /\ hwIn = << >>
    /\ hwDone = 0
    /\ hwRet = 0
    /\ hwOut = << >>
    /\ camRunning = TRUE
    /\ nCaptured = 0
    /\ nDropped = 0
    /\ stream = <<[f |-> 1, bytes |-> PipeWriteReady[1]],
                  [f |-> 1, bytes |-> PipeWriteReady[2]]>>
    /\ nFrames = 1
    /\ lockedWrites = TRUE
    /\ absTs = << >>
    /\ cbTs = << >>
    /\ startTsWrites = 0
    /\ earlyAU = FALSE
    /\ procState = "running"
    /\ exitCode = 0
    /\ exitBy = "none"

\* camera_create has made buffer_count requests, one buffer each
\* (camera.cpp:214-246), and camera_start has cleared the control list and
\* queued every request (camera.cpp:466-476)
InitCam ==
    /\ ProcStarted
    /\ ChIdle
    /\ requests = 1..BufferCount
    /\ sensorQ = [i \in 1..BufferCount |->
                     [req |-> i, buf |-> i, controls |-> EmptyControls, at |-> 0]]
    /\ rcPc = "idle"
    /\ rcReq = NoRequest
    /\ ctrls = EmptyControls
    /\ ctrls_mutex = "free"
    /\ supPc = "wait"
    /\ supMsg = << >>
    /\ supAt = 0
    /\ unsOk = TRUE
    /\ live = InitialParams
    /\ fresh = InitialParams
    /\ livePrev = InitialParams
    /\ reloadLog = << >>
    /\ reloadsDone = 0
    /\ nMsgs = 0
    /\ rcLog = << >>
    /\ errLog = << >>
    /\ DecIdle
    /\ RingIdle
    /\ stopReq = "none"

NextCam ==
    \/ RcCancelled
    \/ RcBegin
    \/ RcFrameCb
    \/ RcReuse
    \/ RcLock
    \/ RcCopy
    \/ RcClear
    \/ RcUnlock
    \/ RcQueue
    \/ SupReceive
    \/ SupDecode
    \/ SupSwap
    \/ SupReport
    \/ ReloadLock
    \/ ReloadSet
    \/ ReloadUnlock

SpecCam == InitCam /\ [][NextCam]_vars

(***************************************************************************)
(* What the completion path has done, read from its log.  Completions are  *)
(* delivered one at a time, so the log is a run of cancelled completions   *)
(* and of completions handled: complete, frame_cb, queue.                  *)
(***************************************************************************)
\* the calls of the frame-ready callback, in order
FrameCbs == SelectSeq(rcLog, LAMBDA e : e.ev = "frame_cb")

\* the resubmissions, in order
Queued == SelectSeq(rcLog, LAMBDA e : e.ev = "queue")

\* the callbacks whose frame the encoder accepted
Accepted == SelectSeq(FrameCbs, LAMBDA e : e.accepted)

\* on_request_complete is between its first and its last statement
RcBusy == rcPc # "idle"

\* the requests queued at the sensor or being handled by the callback
InUse ==
    {sensorQ[i].req : i \in DOMAIN sensorQ}
    \cup (IF RcBusy THEN {rcReq.req} ELSE {})

(***************************************************************************)
(* C11.  A frame whose VIDIOC_QBUF fails in encoder_encode is dropped: it  *)
(* never reaches the encoder's input queue (no retry), the process keeps   *)
(* running, the completion path goes on to resubmit the capture request    *)
(* of that frame, and the frames after it are submitted as usual, the      *)
(* input index advancing by one per frame whether accepted or not.         *)
(***************************************************************************)
C11_DroppedFrameNotFatal ==
    /\ procState = "running"
    /\ Len(FrameCbs) = nCaptured
    /\ nDropped = Len(FrameCbs) - Len(Accepted)
    /\ \A k \in DOMAIN FrameCbs : FrameCbs[k].index = (k - 1) % BufferCount
    /\ Len(hwIn) = Len(Accepted)
    /\ \A j \in DOMAIN hwIn : hwIn[j].index = Accepted[j].index
    /\ \A i \in DOMAIN rcLog :
          (rcLog[i].ev = "frame_cb" /\ ~rcLog[i].accepted) =>
             IF i = Len(rcLog)
             THEN rcPc \in {"reuse", "lock", "copy", "clear", "unlock", "queue"}
                  /\ rcReq.req = rcLog[i].req
             ELSE rcLog[i + 1].ev = "queue" /\ rcLog[i + 1].req = rcLog[i].req

\* witness: the first frame was rejected, its request went back to the
\* sensor, and the second frame was accepted by the encoder
C11_Witness ==
    /\ Len(FrameCbs) = 2
    /\ ~FrameCbs[1].accepted /\ FrameCbs[2].accepted
    /\ Len(Queued) >= 1 /\ Queued[1].req = FrameCbs[1].req
    /\ Len(hwIn) = 1 /\ hwIn[1].index = 1

(***************************************************************************)
(* C12.  When output_thread finds the device readable while no input       *)
(* buffer has been returned, its next step leaves the process running and  *)
(* takes it on to the ready output buffer.                                 *)
(***************************************************************************)
C12_MissingInputNotFatal ==
    [][(drainPc = "dq_in" /\ hwRet = 0 /\ hwOut # << >> /\ drainPc' # drainPc)
          => (procState' = "running" /\ drainPc' = "dq_out")]_vars

(***************************************************************************)
(* C13.  A request that completed with status RequestCancelled gets no     *)
(* call of the frame-ready callback and is not handed back to the sensor:  *)
(* nothing follows its completion in the log but the next completion, the  *)
(* callback has been called once per request that completed normally and   *)
(* not for the cancelled ones, and the cancelled request is neither queued *)
(* at the sensor nor in the hands of on_request_complete.                  *)
(***************************************************************************)
C13_CancelledRequestDropped ==
    /\ \A i \in DOMAIN rcLog :
          rcLog[i].ev = "cancelled" =>
             /\ i < Len(rcLog) => rcLog[i + 1].ev \in {"complete", "cancelled"}
             /\ rcLog[i].req \notin InUse
             /\ \A j \in DOMAIN rcLog :
                   (j > i /\ rcLog[j].ev \in {"frame_cb", "queue"}) =>
                      rcLog[j].req # rcLog[i].req
    /\ Len(FrameCbs) + Cardinality({i \in DOMAIN rcLog : rcLog[i].ev = "cancelled"})
          + (IF rcPc = "frame_cb" THEN 1 ELSE 0) = Cardinality(Delivered)
    /\ Len(Queued) <= Len(FrameCbs)

\* witness: a request was cancelled and the one after it was handled and
\* resubmitted
C13_Witness ==
    /\ Len(rcLog) >= 4
    /\ rcLog[1].ev = "cancelled"
    /\ rcLog[2].ev = "complete" /\ rcLog[4].ev = "queue"
    /\ Len(sensorQ) = BufferCount - 1

\* on_request_complete is past the call of the callback
AfterFrameCb == rcPc \in {"reuse", "lock", "copy", "clear", "unlock", "queue"}

\* the entries of the sensor's queue that hold request r
QueuedAt(r) == {i \in DOMAIN sensorQ : sensorQ[i].req = r}

(***************************************************************************)
(* C14.  A request that completed normally gets exactly one call of the    *)
(* frame-ready callback, with its own buffer, and then exactly one         *)
(* queueRequest: in the log a completion is followed by the callback and   *)
(* the callback by the resubmission, each once, with the same request and  *)
(* the same buffer; the request then sits once in the sensor's queue with  *)
(* that buffer and with the control list that was pending, which is empty  *)
(* or the list of a reload.                                                *)
(***************************************************************************)
C14_CallbackThenResubmit ==
    \A i \in DOMAIN rcLog :
        LET e == rcLog[i]
        IN  /\ e.ev = "complete" =>
                 IF i = Len(rcLog)
                 THEN rcPc = "frame_cb" /\ rcReq.req = e.req /\ rcReq.buf = e.buf
                 ELSE /\ rcLog[i + 1].ev = "frame_cb"
                      /\ rcLog[i + 1].req = e.req /\ rcLog[i + 1].buf = e.buf
            /\ e.ev = "frame_cb" =>
                 /\ i > 1 /\ rcLog[i - 1].ev = "complete"
                 /\ IF i = Len(rcLog)
                    THEN AfterFrameCb /\ rcReq.req = e.req /\ rcReq.buf = e.buf
                    ELSE /\ rcLog[i + 1].ev = "queue"
                         /\ rcLog[i + 1].req = e.req /\ rcLog[i + 1].buf = e.buf
            /\ e.ev = "queue" =>
                 /\ i > 2 /\ rcLog[i - 1].ev = "frame_cb"
                 /\ e.buf = e.req /\ e.req \in requests
                 /\ i < Len(rcLog) => rcLog[i + 1].ev \in {"complete", "cancelled"}
                 /\ Cardinality(QueuedAt(e.req)) = 1
                 /\ \A k \in QueuedAt(e.req) :
                       sensorQ[k].buf = e.buf /\ sensorQ[k].controls = e.controls
                 /\ \/ e.controls = EmptyControls
                    \/ \E k \in DOMAIN reloadLog :
                          e.controls = FullControls(reloadLog[k])

\* witness: a request went through callback and resubmission and carries
\* the controls of a reload
C14_Witness ==
    /\ Len(Queued) >= 1
    /\ Queued[1].controls # EmptyControls
    /\ rcPc = "idle"
    /\ Len(sensorQ) = BufferCount

(***************************************************************************)
(* C15.  The pool holds the buffer_count Request objects camera_create     *)
(* made and no others: every request queued at the sensor or in the hands  *)
(* of on_request_complete is one of them, none is in use twice, and the    *)
(* number in use never exceeds the configured buffer count.                *)
(***************************************************************************)
C15_RequestPoolBounded ==
    /\ requests = 1..BufferCount
    /\ Cardinality(requests) = live.buffer_count
    /\ InUse \subseteq requests
    /\ Cardinality(InUse) <= BufferCount
    /\ Cardinality(InUse) = Len(sensorQ) + (IF RcBusy THEN 1 ELSE 0)

\* witness: two completion/resubmit cycles have run and every request of the
\* pool is in use again
C15_Witness ==
    /\ Len(Queued) >= 2
    /\ Cardinality(InUse) = BufferCount
    /\ sensorQ[Len(sensorQ)].req = 2

\* a control list holds nothing, or every dynamic control with the value
\* fill_dynamic_controls computes from Parameter Set p
WholeListOf(list, p) == list = FullControls(p)

\* the control lists attached to requests on their way back to the sensor
Attached ==
    {sensorQ[i].controls : i \in DOMAIN sensorQ}
    \cup {Queued[i].controls : i \in DOMAIN Queued}
    \cup (IF rcPc \in {"clear", "unlock", "queue"} THEN {rcReq.controls} ELSE {})

(***************************************************************************)
(* C16.  camera_reload_params and the copy-and-clear of on_request_complete *)
(* never run at the same time, and every control list attached to a        *)
(* request is empty or holds all dynamic controls with the values of the   *)
(* latest reload begun before the copy, never part of a reload.            *)
(***************************************************************************)
C16_ReloadAtomic ==
    /\ ~(rcPc \in {"copy", "clear", "unlock"} /\ supPc \in {"fill", "reload_unlock"})
    /\ \A list \in Attached : DOMAIN list \in {{}, ControlIds}
    /\ \A i \in DOMAIN Queued :
          Queued[i].controls # EmptyControls =>
             /\ Queued[i].at \in DOMAIN reloadLog
             /\ WholeListOf(Queued[i].controls, reloadLog[Queued[i].at])
    /\ rcPc \in {"clear", "unlock", "queue"} =>
          \/ rcReq.controls = EmptyControls
          \/ /\ rcReq.at \in DOMAIN reloadLog
             /\ WholeListOf(rcReq.controls, reloadLog[rcReq.at])

\* witness: the first reload went out with a request, and the completion
\* path now waits for ctrls_mutex while the second reload is half written
C16_Witness ==
    /\ rcPc = "lock" /\ supPc = "fill" /\ supAt = 6
    /\ ctrls_mutex = "sup"
    /\ Len(Queued) = 1
    /\ WholeListOf(Queued[1].controls, reloadLog[1])
    /\ Len(reloadLog) = 2

\* the number of reloads that had returned when the latest control snapshot
\* (camera.cpp:284) was taken
LastSnapshotAt ==
    IF rcPc = "queue" THEN rcReq.at
    ELSE IF Queued = << >> THEN 0
    ELSE Queued[Len(Queued)].at

\* completions that ended in the early return for a cancelled request
Cancelled == {i \in DOMAIN rcLog : rcLog[i].ev = "cancelled"}

(***************************************************************************)
(* C17, as stated.  The first request handed to queueRequest after         *)
(* camera_reload_params(p) has returned carries p's control values, and    *)
(* every other request carries none.                                       *)
(***************************************************************************)
C17_NextSubmissionCarries ==
    \A i \in DOMAIN Queued :
       LET before == IF i = 1 THEN 0 ELSE Queued[i - 1].done
       IN  IF Queued[i].done > before
           THEN Queued[i].controls = FullControls(reloadLog[Queued[i].done])
           ELSE Queued[i].controls = EmptyControls

(***************************************************************************)
(* C17, amended.  The first request whose control snapshot is taken after  *)
(* camera_reload_params(p) has returned carries p's control values, the    *)
(* latest reload's if several returned; every other request carries none;  *)
(* a reload that no snapshot has taken yet stays whole in the pending      *)
(* list; and no request leaves the capture cycle because of a reload.      *)
(***************************************************************************)
C17_NextSnapshotCarries ==
    /\ \A i \in DOMAIN Queued :
          LET before == IF i = 1 THEN 0 ELSE Queued[i - 1].at
          IN  IF Queued[i].at > before
              THEN Queued[i].controls = FullControls(reloadLog[Queued[i].at])
              ELSE Queued[i].controls = EmptyControls
    /\ (ctrls_mutex = "free" /\ rcPc \notin {"copy", "clear", "unlock"}) =>
          ctrls = IF reloadsDone > LastSnapshotAt
                  THEN FullControls(reloadLog[reloadsDone])
                  ELSE EmptyControls
    /\ Cardinality(InUse) = BufferCount - Cardinality(Cancelled)

\* witness: the first reload went out with the first resubmitted request, the
\* second request went out with no controls, and a second reload is pending
C17_Witness ==
    /\ reloadsDone = 2
    /\ Len(Queued) = 2
    /\ Queued[1].controls = FullControls(reloadLog[1])
    /\ Queued[2].controls = EmptyControls
    /\ reloadLog[2] # reloadLog[1]
    /\ ctrls = FullControls(reloadLog[2])

\* a step of camera_reload_params (camera.cpp:481-486)
ReloadStep ==
    /\ supPc \in {"reload_lock", "fill", "reload_unlock"}
    /\ <<supPc, supAt>>' # <<supPc, supAt>>

(***************************************************************************)
(* C18.  A step of camera_reload_params changes the pending control list   *)
(* and its mutex only: the request pool, the requests queued at the sensor *)
(* with their buffers, the request being completed, the capture session,   *)
(* the encoder's buffers and queues, its drain thread, the stream written  *)
(* so far and the live Parameter Set stay as they are.                     *)
(***************************************************************************)
C18_ReloadTouchesControlsOnly ==
    [][ReloadStep => UNCHANGED <<rcVars, sessionVars, live>>]_vars

\* witness: a reload ran from start to end while a completed request was
\* between its frame callback and its resubmission
C18_Witness ==
    /\ reloadsDone = 1
    /\ supPc = "wait"
    /\ rcPc = "lock"
    /\ rcLog[Len(rcLog)].ev = "frame_cb"
    /\ Len(sensorQ) = BufferCount - 1
    /\ hwIn # << >>
    /\ ctrls = FullControls(live)
    /\ nMsgs = 1

DecodedSets ==
    {ParametersUnserialize(m).p :
        m \in {mm \in UNION {ReconfMessages(v) : v \in 0..MaxReconf} :
                  ParametersUnserialize(mm).ok}}

MsgAfBad(v) == MsgWindow(v) \o <<Token("AfWindow", 0, <<2, 2, 5>>)>>

\* both windows valid
MsgAfWindow(v) == MsgWindow(v) \o <<Token("AfWindow", 0, <<1, 1, 2, 2>>)>>

\* a window of five values, all within [0, 1]
MsgLongWindow(v) == MsgPlain(v) \o <<Token("ROI", 0, <<0, 0, 5, 5, 5>>)>>

\* a window of two values
MsgShortWindow(v) == <<Token("ROI", 0, <<0, 5>>)>> \o MsgPlain(v)

DecMessages ==
    {MsgPlain(1), MsgWindow(1), MsgBadWindow(1), MsgAfBad(1), MsgAfWindow(1),
     MsgLongWindow(1), MsgShortWindow(1)}

\* entries whose key parameters_unserialize does not know: another word, a
\* known key in lower case with a window that would be rejected, and the
\* empty entry two spaces in a row produce
UnknownTokens ==
    {Token("Foo", 9, << >>), Token("roi", 0, <<0, 0, 11, 10>>),
     Token("", 0, << >>)}

\* msg with entry t put after its first pos entries
InsertAt(msg, pos, t) ==
    SubSeq(msg, 1, pos) \o <<t>> \o SubSeq(msg, pos + 1, Len(msg))

RECURSIVE Extended(_, _)
Extended(msg, extras) ==
    IF extras = << >> THEN msg
    ELSE Extended(InsertAt(msg, Head(extras).pos, Head(extras).tok), Tail(extras))

\* window_load writes vals[i] before it looks at i (window.c:11): a fifth
\* value is stored past the end of float vals[4] once four values within
\* [0, 1] have been read
WindowOverflows(vals) == Len(vals) > 4 /\ WindowValsOk(SubSeq(vals, 1, 4))

\* the decoding of msg reaches a window_load call that writes past vals
RECURSIVE HitsOverflow(_)
HitsOverflow(msg) ==
    IF msg = << >> THEN FALSE
    ELSE LET t == Head(msg)
         IN  IF t.key \in WindowKeys /\ t.win # << >>
             THEN IF WindowOverflows(t.win) THEN TRUE
                  ELSE IF WindowLoad(t.win) THEN HitsOverflow(Tail(msg))
                  ELSE FALSE
             ELSE HitsOverflow(Tail(msg))

\* what a build does when window_load writes past vals: the write lands in
\* unused stack and the call goes on to return false, or the process is
\* aborted
OverflowOutcomes == {"returns", "aborts"}

\* one call of parameters_unserialize on msg by a build
UnserializeCall(msg, build) ==
    LET r == ParametersUnserialize(msg)
    IN  IF HitsOverflow(msg) /\ build = "aborts"
        THEN [returned |-> FALSE, ok |-> FALSE, p |-> ZeroParams]
        ELSE [returned |-> TRUE, ok |-> r.ok, p |-> r.p]

\* one or two extra entries for msg, each at any position
Extras(msg) ==
    {<<[pos |-> i, tok |-> t]>> : i \in 0..Len(msg), t \in UnknownTokens}
    \cup {<<[pos |-> i, tok |-> t], [pos |-> j, tok |-> Token("Foo", 9, << >>)]>> :
             i \in 0..Len(msg), j \in 0..Len(msg), t \in UnknownTokens}

UnserializeInputs ==
    UNION {[fn : {"unserialize"}, msg : {m}, extras : Extras(m),
            build : OverflowOutcomes] : m \in DecMessages}

\* parameters_unserialize is called on the message and on the message with
\* the extra entries, each time on a Parameter Set of its own
DecUnserialize ==
    /\ decPc = "idle"
    /\ decIn.fn = "unserialize"
    /\ decOut' = [fn |-> "unserialize",
                  base |-> UnserializeCall(decIn.msg, decIn.build),
                  ext |-> UnserializeCall(Extended(decIn.msg, decIn.extras),
                                          decIn.build)]
    /\ decPc' = "done"
    /\ UNCHANGED <<decIn, stopReq, ringVars, procVars, chVars, requests, sensorQ, rcPc,
                   rcReq, ctrls, ctrls_mutex, supVars, rcLog>>

\* ---------------------------------------------------- sensor_mode_load

\* one ':'-separated field of the encoded sensor mode: decimal digits with
\* value v, or a text that starts with character c
NumField(v, c) == [num |-> TRUE, v |-> v, c |-> c]
ChrField(c) == [num |-> FALSE, v |-> 0, c |-> c]

\* the return value of sscanf(encoded, "%u:%u:%u:%c", ...): the number of
\* leading conversions that succeed (sensor_mode.c:11)
SscanfCount(fs) ==
    IF ~(Len(fs) >= 1 /\ fs[1].num) THEN 0
    ELSE IF ~(Len(fs) >= 2 /\ fs[2].num) THEN 1
    ELSE IF ~(Len(fs) >= 3 /\ fs[3].num) THEN 2
    ELSE IF ~(Len(fs) >= 4) THEN 3
    ELSE 4

Toupper(c) == IF c = "p" THEN "P" ELSE IF c = "u" THEN "U" ELSE c

DefaultBitDepth == 12

\* sensor_mode.c:25-27
BitDepth(n, given, heap) == IF n < 3 THEN DefaultBitDepth ELSE given

\* sensor_mode.c:17-23: where the value of packed comes from.  No branch
\* assigns it when the fourth character is neither P nor U
PackedFrom(n, p) ==
    IF n < 4 THEN "default"
    ELSE IF Toupper(p) \in {"P", "U"} THEN "char"
    ELSE "heap"

\* sensor_mode_load (sensor_mode.c:7-30) on the fields fs, heap being what
\* the object returned by malloc holds
SensorModeLoad(fs, heap) ==
    LET n == SscanfCount(fs)
    IN  IF n < 2
        \* free(*mode): nothing of the object is left to look at
        THEN [ok |-> FALSE, n |-> n, mode |-> heap, packedFrom |-> "heap"]
        ELSE [ok |-> TRUE, n |-> n,
              mode |-> [width |-> fs[1].v, height |-> fs[2].v,
                        bit_depth |-> BitDepth(n, IF n >= 3 THEN fs[3].v ELSE 0,
                                               heap.bit_depth),
                        packed |-> CASE PackedFrom(n, IF n = 4 THEN fs[4].c ELSE "")
                                           = "default" -> TRUE
                                     [] PackedFrom(n, IF n = 4 THEN fs[4].c ELSE "")
                                           = "char" -> Toupper(fs[4].c) = "P"
                                     [] OTHER -> heap.packed],
              packedFrom |-> PackedFrom(n, IF n = 4 THEN fs[4].c ELSE "")]

\* encoded sensor modes, from no field to five
ModeFields ==
    {NumField(1920, "1"), NumField(1080, "1"), NumField(10, "1"),
     NumField(8, "8"), ChrField("P"), ChrField("p"), ChrField("U"),
     ChrField("u"), ChrField("X")}

ModeInputs ==
    UNION {[1..k -> ModeFields] : k \in 0..4}

\* what malloc(sizeof(sensor_mode_t)) may hold
HeapModes ==
    [width : {0}, height : {0}, bit_depth : {0, 8}, packed : BOOLEAN]

SensorModeCalls == [fn : {"sensor_mode"}, fs : ModeInputs, heap : HeapModes]

DecSensorMode ==
    /\ decPc = "idle"
    /\ decIn.fn = "sensor_mode"
    /\ decOut' = [fn |-> "sensor_mode", r |-> SensorModeLoad(decIn.fs, decIn.heap)]
    /\ decPc' = "done"
    /\ UNCHANGED <<decIn, stopReq, ringVars, procVars, chVars, requests, sensorQ, rcPc,
                   rcReq, ctrls, ctrls_mutex, supVars, rcLog>>

\* ------------------------------------- camera_create and encoder_create

HdWidth == 1280
HdHeight == 720

\* faulty variant: both dimensions must reach the threshold
ColorSpaceBoth(width, height) ==
    IF width >= HdWidth /\ height >= HdHeight THEN "Rec709" ELSE "Smpte170m"

\* camera.cpp:179-183, the colorspace camera_create asks for
ColorSpaceFor(width, height) ==
    IF width >= HdWidth \/ height >= HdHeight THEN "Rec709" ELSE "Smpte170m"

\* camera.cpp:88-93
GetV4l2Colorspace(cs) ==
    IF cs = "Rec709" THEN "V4L2_COLORSPACE_REC709"
    ELSE "V4L2_COLORSPACE_SMPTE170M"

Widths == {640, 1279, 1280, 1920}
Heights == {480, 719, 720, 1080}

\* stream configurations validate() may leave for a request: the request
\* itself, or an adjusted one
Negotiated(width, height) ==
    [width : {width, 1280}, height : {height, 720},
     stride : {width, 1280, 1920},
     colorSpace : {"Rec709", "Smpte170m"}]

\* the status validate() returns for a request and what it left
ValidateStatus(width, height, neg) ==
    IF neg.width = width /\ neg.height = height
       /\ neg.colorSpace = ColorSpaceFor(width, height)
    THEN {"Valid", "Invalid"}
    ELSE {"Adjusted", "Invalid"}

StartupCalls ==
    UNION {UNION {[fn : {"startup"}, width : {w}, height : {h}, neg : {g},
                   status : ValidateStatus(w, h, g)] :
                      g \in Negotiated(w, h)} :
              w \in Widths, h \in Heights}

\* camera.cpp:175-212: the configuration is filled from the parameters,
\* validate() may adjust it, and only the status Invalid ends camera_create
CameraCreate(in) ==
    [ok |-> in.status # "Invalid",
     asked |-> [width |-> in.width, height |-> in.height,
                colorSpace |-> ColorSpaceFor(in.width, in.height)],
     stream |-> in.neg]

\* encoder.c:171-179, the input format encoder_create sets: width and height
\* of the parameters, stride and colorspace as passed by main
EncoderFormat(params, stride, colorspace) ==
    [width |-> params.width, height |-> params.height,
     bytesperline |-> stride, colorspace |-> colorspace]

\* main.c:82-96: camera_create, then encoder_create with &params,
\* camera_get_mode_stride(cam) and camera_get_mode_colorspace(cam)
DecStartup ==
    /\ decPc = "idle"
    /\ decIn.fn = "startup"
    /\ LET cam == CameraCreate(decIn)
       IN  decOut' = [fn |-> "startup", cam |-> cam,
                      fmt |-> IF cam.ok
                              THEN EncoderFormat(decIn, cam.stream.stride,
                                       GetV4l2Colorspace(cam.stream.colorSpace))
                              ELSE EncoderFormat(decIn, 0, "")]
    /\ decPc' = "done"
    /\ UNCHANGED <<decIn, stopReq, ringVars, procVars, chVars, requests, sensorQ, rcPc,
                   rcReq, ctrls, ctrls_mutex, supVars, rcLog>>

\* ------------------------------------------------------- encoder_create

\* number of buffers of the encoder's capture queue (parameters.c:156)
CaptureBufferCount == BufferCount * 2

EncStep(op, slot) == [op |-> op, slot |-> slot]

\* the calls encoder_create makes on the device, in order (encoder.c:119-294);
\* slot is the index of the capture buffer the call is about, -1 for none
EncCreateHead ==
    <<EncStep("open", -1), EncStep("bitrate", -1), EncStep("profile", -1),
      EncStep("level", -1), EncStep("idr_period", -1),
      EncStep("repeat_seq_header", -1), EncStep("fmt_output", -1),
      EncStep("fmt_capture", -1), EncStep("fps", -1),
      EncStep("reqbufs_output", -1), EncStep("reqbufs_capture", -1)>>

RECURSIVE EncSlotSteps(_, _)
EncSlotSteps(i, count) ==
    IF i >= count THEN << >>
    ELSE <<EncStep("querybuf", i), EncStep("mmap", i), EncStep("qbuf", i)>>
         \o EncSlotSteps(i + 1, count)

EncCreateSteps(count) ==
    EncCreateHead \o EncSlotSteps(0, count)
    \o <<EncStep("streamon_output", -1), EncStep("streamon_capture", -1)>>

\* faulty variant: the branch of a failed mmap() leaves the device open
EncFailureLeaksFd(op) ==
    IF op = "mmap" THEN [err |-> "mmap() failed", free |-> TRUE, close |-> FALSE]
    ELSE [err |-> "unable to open device", free |-> FALSE, close |-> TRUE]

\* what the branch taken on the failure of a call does before it returns
\* false: the text given to set_error, free(encp->capture_buffers),
\* close(encp->fd)
EncFailure(op) ==
    CASE op = "open" ->
             [err |-> "unable to open device", free |-> FALSE, close |-> FALSE]
      [] op = "bitrate" ->
             [err |-> "unable to set bitrate", free |-> FALSE, close |-> TRUE]
      [] op = "profile" ->
             [err |-> "unable to set profile", free |-> FALSE, close |-> TRUE]
      [] op = "level" ->
             [err |-> "unable to set level", free |-> FALSE, close |-> TRUE]
      [] op = "idr_period" ->
             [err |-> "unable to set IDR period", free |-> FALSE, close |-> TRUE]
      [] op = "repeat_seq_header" ->
             [err |-> "unable to set REPEAT_SEQ_HEADER", free |-> FALSE,
              close |-> TRUE]
      [] op = "fmt_output" ->
             [err |-> "unable to set output format", free |-> FALSE,
              close |-> TRUE]
      [] op = "fmt_capture" ->
             [err |-> "unable to set capture format", free |-> FALSE,
              close |-> TRUE]
      [] op = "fps" ->
             [err |-> "unable to set fps", free |-> FALSE, close |-> TRUE]
      [] op = "reqbufs_output" ->
             [err |-> "unable to set output buffers", free |-> FALSE,
              close |-> TRUE]
      [] op = "reqbufs_capture" ->
             [err |-> "unable to set capture buffers", free |-> FALSE,
              close |-> TRUE]
      [] op = "querybuf" ->
             [err |-> "unable to query buffer", free |-> TRUE, close |-> TRUE]
      [] op = "mmap" ->
             [err |-> "mmap() failed", free |-> TRUE, close |-> TRUE]
      [] op = "qbuf" ->
             [err |-> "ioctl(VIDIOC_QBUF) failed", free |-> TRUE, close |-> TRUE]
      [] op = "streamon_output" ->
             [err |-> "unable to activate output stream", free |-> TRUE,
              close |-> TRUE]
      [] op = "streamon_capture" ->
             [err |-> "unable to activate capture stream", free |-> TRUE,
              close |-> TRUE]

\* the encode session before encoder_create has done anything
EncNew ==
    [ok |-> FALSE, err |-> "", fd |-> "none", buffers |-> "none",
     mapped |-> << >>, queued |-> {}, streams |-> {}, thread |-> FALSE]

\* the effect of a call that succeeds
EncStepOk(st, s) ==
    CASE s.op = "open" -> [st EXCEPT !.fd = "open"]
      [] s.op = "reqbufs_capture" -> [st EXCEPT !.buffers = "allocated"]
      [] s.op = "mmap" -> [st EXCEPT !.mapped = Append(@, s.slot)]
      [] s.op = "qbuf" -> [st EXCEPT !.queued = @ \cup {s.slot}]
      [] s.op = "streamon_output" -> [st EXCEPT !.streams = @ \cup {"output"}]
      [] s.op = "streamon_capture" -> [st EXCEPT !.streams = @ \cup {"capture"}]
      [] OTHER -> st

\* the effect of a call that fails
EncStepFails(st, s) ==
    LET f == EncFailure(s.op)
    IN  [st EXCEPT !.err = f.err,
                   !.buffers = IF f.free THEN "freed" ELSE @,
                   !.fd = IF f.close THEN "closed" ELSE @]

\* encoder_create from the call steps[1] on, the fail-th of these calls
\* failing (none when fail < 1); after the last call it fills the session,
\* creates the output thread and returns true (encoder.c:296-303)
RECURSIVE EncoderCreateFrom(_, _, _)
EncoderCreateFrom(st, steps, fail) ==
    IF steps = << >> THEN [st EXCEPT !.thread = TRUE, !.ok = TRUE]
    ELSE IF fail = 1 THEN EncStepFails(st, Head(steps))
    ELSE EncoderCreateFrom(EncStepOk(st, Head(steps)), Tail(steps), fail - 1)

EncoderCreate(count, fail) ==
    EncoderCreateFrom(EncNew, EncCreateSteps(count), fail)

\* number of capture buffers the device grants
GrantedCounts == {1, 2, CaptureBufferCount}

EncoderCreateCalls ==
    UNION {[fn : {"encoder_create"}, count : {c},
            fail : 0..Len(EncCreateSteps(c))] : c \in GrantedCounts}

DecEncoderCreate ==
    /\ decPc = "idle"
    /\ decIn.fn = "encoder_create"
    /\ decOut' = [fn |-> "encoder_create",
                  r |-> EncoderCreate(decIn.count, decIn.fail)]
    /\ decPc' = "done"
    /\ UNCHANGED <<decIn, stopReq, ringVars, procVars, chVars, requests, sensorQ, rcPc,
                   rcReq, ctrls, ctrls_mutex, supVars, rcLog>>

\* ----------------------------------------------- camera_start: autofocus

\* camera.cpp:396-406: the value given to controls::AfRange
AfRangeControl(params) ==
    IF params.af_range = "macro" THEN "AfRangeMacro"
    ELSE IF params.af_range = "full" THEN "AfRangeFull"
    ELSE "AfRangeNormal"

\* camera.cpp:408-416: the value given to controls::AfSpeed; the string
\* compared with "fast" is params->af_range
AfSpeedControl(params) ==
    IF params.af_range = "fast" THEN "AfSpeedFast" ELSE "AfSpeedNormal"

\* camera.cpp:396-416: the autofocus range and speed camera_start sets, for
\* the controls the camera has
CameraStartAf(params, has) ==
    [af_range |-> IF "AfRange" \in has THEN AfRangeControl(params) ELSE "unset",
     af_speed |-> IF "AfSpeed" \in has THEN AfSpeedControl(params) ELSE "unset"]

AfRanges == {"normal", "macro", "full", "fast"}
AfSpeeds == {"normal", "fast", "slow"}

CameraStartCalls ==
    [fn : {"camera_start"}, af_range : AfRanges, af_speed : AfSpeeds,
     has : SUBSET {"AfRange", "AfSpeed"}]

DecCameraStart ==
    /\ decPc = "idle"
    /\ decIn.fn = "camera_start"
    /\ decOut' = [fn |-> "camera_start", ctrls |-> CameraStartAf(decIn, decIn.has)]
    /\ decPc' = "done"
    /\ UNCHANGED <<decIn, stopReq, ringVars, procVars, chVars, requests, sensorQ, rcPc,
                   rcReq, ctrls, ctrls_mutex, supVars, rcLog>>

\* ------------------------------------------------ window_load, roi_load

ValsSize == 4       \* float vals[4]

\* window.c:10-18 and roi.c:10-18: the indices i of the writes vals[i] made
\* by the loop over the fields; each field is stored before it is checked,
\* and the loop ends at the first value outside [0, 1] or after the last
\* field; i is compared with 4 only after the loop
RECURSIVE ValsWritten(_, _)
ValsWritten(vals, i) ==
    IF vals = << >> THEN {}
    ELSE {i} \cup (IF WindowValsOk(<<Head(vals)>>)
                   THEN ValsWritten(Tail(vals), i + 1)
                   ELSE {})

\* one call of window_load or roi_load by a build: a write past vals lands
\* in unused stack, or the process is aborted
WindowLoadCall(vals, build) ==
    LET written == ValsWritten(vals, 0)
        past == \E i \in written : i >= ValsSize
    IN  [written |-> written,
         returned |-> ~(past /\ build = "aborts"),
         ok |-> WindowLoad(vals)]

\* fields in tenths: 0, 0.5 and 1.1
FieldVals == {0, 5, 11}
MaxFields == 6

WindowLoadCalls ==
    UNION {[fn : {"window_load"}, loader : {"window_load", "roi_load"},
            vals : [1..k -> FieldVals], build : OverflowOutcomes] :
              k \in 0..MaxFields}

DecWindowLoad ==
    /\ decPc = "idle"
    /\ decIn.fn = "window_load"
    /\ decOut' = [fn |-> "window_load",
                  r |-> WindowLoadCall(decIn.vals, decIn.build)]
    /\ decPc' = "done"
    /\ UNCHANGED <<decIn, stopReq, ringVars, procVars, chVars, requests, sensorQ, rcPc,
                   rcReq, ctrls, ctrls_mutex, supVars, rcLog>>

\* ---------------------------------- parameters_unserialize: key and value

\* the value of a char * that points to nothing
NullPtr == "NULL"

\* strsep(&entry, ":") twice (parameters.c:37-38): the key is the text up to
\* the first ':' or the whole entry; the second call is made with entry
\* set to NULL by the first when there was no ':', and then returns NULL
SplitEntry(e) ==
    [key |-> e.key, val |-> IF e.sep THEN e.val ELSE NullPtr]

\* keys whose branch reads val with atoi (parameters.c:40-45, 64-65,
\* 102-105)
AtoiKeys == {"CameraID", "Width", "Height", "Shutter", "IDRPeriod", "Bitrate"}

\* keys whose branch reads val with atof (parameters.c:50-57, 68-71,
\* 100-101, 132-133)
AtofKeys == {"Brightness", "Contrast", "Saturation", "Sharpness", "Gain", "EV",
             "FPS", "LensPosition"}

\* keys whose branch reads val with strcmp(val, "1") (parameters.c:46-49,
\* 84-85, 146-147)
FlagKeys == {"HFlip", "VFlip", "HDR", "TextOverlayEnable"}

\* what the branch of the entry's key does with val: atoi, atof and strcmp
\* read the characters val points to
EntryAccess(e) ==
    LET s == SplitEntry(e)
        reads == s.key \in AtoiKeys \cup AtofKeys \cup FlagKeys
    IN  [key |-> s.key, val |-> s.val,
         outcome |-> IF ~reads THEN "ignored"
                     ELSE IF s.val = NullPtr THEN "null access"
                     ELSE "stored"]

EntryCalls ==
    [fn : {"entry"},
     key : AtoiKeys \cup AtofKeys \cup FlagKeys \cup {"Foo", ""},
     sep : BOOLEAN, val : {"", "1", "640"}]

\* one entry of the message goes through the loop body of
\* parameters_unserialize
DecEntry ==
    /\ decPc = "idle"
    /\ decIn.fn = "entry"
    /\ decOut' = [fn |-> "entry", r |-> EntryAccess(decIn)]
    /\ decPc' = "done"
    /\ UNCHANGED <<decIn, stopReq, ringVars, procVars, chVars, requests, sensorQ, rcPc,
                   rcReq, ctrls, ctrls_mutex, supVars, rcLog>>

\* ------------------------------------------------- on_frame and text_draw

\* text.c:132-171: text_draw writes the overlay into the frame when the
\* overlay is enabled
TextDraw(enabled, frame) ==
    IF enabled THEN [frame EXCEPT !.overlay = TRUE] ELSE frame

\* main.c:49-51: on_frame passes the frame to encoder_encode and does
\* nothing else; what it returns here is the frame the encoder is given
OnFrame(enabled, frame) == frame

\* a frame as the sensor delivers it
CapturedFrames == [buf : 1..BufferCount, overlay : {FALSE}]

OnFrameCalls ==
    [fn : {"on_frame"}, text_overlay_enable : BOOLEAN, frame : CapturedFrames]

DecOnFrame ==
    /\ decPc = "idle"
    /\ decIn.fn = "on_frame"
    /\ decOut' = [fn |-> "on_frame",
                  submitted |-> OnFrame(decIn.text_overlay_enable, decIn.frame)]
    /\ decPc' = "done"
    /\ UNCHANGED <<decIn, stopReq, ringVars, procVars, chVars, requests, sensorQ, rcPc,
                   rcReq, ctrls, ctrls_mutex, supVars, rcLog>>

InitDec ==
    /\ ProcInit
    /\ ChIdle
    /\ CapIdle
    /\ RingIdle
    /\ stopReq = "none"
    /\ decPc = "idle"
    /\ decIn \in UnserializeInputs \cup SensorModeCalls \cup StartupCalls
                \cup EncoderCreateCalls \cup CameraStartCalls
                \cup WindowLoadCalls \cup EntryCalls \cup OnFrameCalls
    /\ decOut = NoCall

NextDec ==
    \/ DecUnserialize
    \/ DecSensorMode
    \/ DecStartup
    \/ DecEncoderCreate
    \/ DecCameraStart
    \/ DecWindowLoad
    \/ DecEntry
    \/ DecOnFrame

SpecDec == InitDec /\ [][NextDec]_vars

\* the decoder call has been made
Decoded(fn) == decPc = "done" /\ decIn.fn = fn

SoundWindow(w) == w.state \in {"null", "set"}

(***************************************************************************)
(* C22.  When a non-empty ROI or AfWindow value has a field outside [0, 1] *)
(* or does not have four fields, parameters_unserialize returns false and  *)
(* afterwards neither params->roi nor params->af_window points to a        *)
(* rectangle that is partly built or already freed.                        *)
(***************************************************************************)
C22_NoRectangleLeftBehind ==
    (Decoded("unserialize") /\ Malformed(decIn.msg)) =>
       /\ decOut.base.returned
       /\ ~decOut.base.ok
       /\ SoundWindow(decOut.base.p.roi)
       /\ SoundWindow(decOut.base.p.af_window)

(***************************************************************************)
(* C23.  sensor_mode_load fails when fewer than two numeric fields parse;  *)
(* with two fields the bit depth is 12 and packed is true; with three the  *)
(* given bit depth is kept and packed is true; with four the given bit     *)
(* depth is kept and packed is decided by the fourth character.            *)
(***************************************************************************)
C23_SensorModeFields ==
    Decoded("sensor_mode") =>
       LET r == decOut.r
           fs == decIn.fs
       IN  /\ r.ok = (r.n >= 2)
           /\ r.n = 2 => (r.mode.bit_depth = DefaultBitDepth /\ r.mode.packed)
           /\ r.n = 3 => (r.mode.bit_depth = fs[3].v /\ r.mode.packed)
           /\ r.n = 4 => (r.mode.bit_depth = fs[3].v /\ r.packedFrom = "char")
           /\ r.ok => (r.mode.width = fs[1].v /\ r.mode.height = fs[2].v)

(***************************************************************************)
(* C24.  Whenever camera_create succeeded and encoder_create sets the      *)
(* encoder's input format, its width, height, stride and colorspace are    *)
(* those of the stream configuration left by validate(), also when that    *)
(* differs from the requested one.                                         *)
(***************************************************************************)
C24_EncoderMatchesNegotiated ==
    (Decoded("startup") /\ decOut.cam.ok) =>
       /\ decOut.fmt.width = decOut.cam.stream.width
       /\ decOut.fmt.height = decOut.cam.stream.height
       /\ decOut.fmt.bytesperline = decOut.cam.stream.stride
       /\ decOut.fmt.colorspace = GetV4l2Colorspace(decOut.cam.stream.colorSpace)

\* the colorspace camera_create asked for, after the call
AskedRec709 == decOut.cam.asked.colorSpace = "Rec709"

(***************************************************************************)
(* C25, as stated.  camera_create asks for Rec709 exactly when the         *)
(* requested width is at least 1280 and the requested height is at least   *)
(* 720, and for SMPTE170M otherwise.                                       *)
(***************************************************************************)
C25_WideGamutWhenBothLarge ==
    Decoded("startup") =>
       /\ AskedRec709 = (decIn.width >= HdWidth /\ decIn.height >= HdHeight)
       /\ ~AskedRec709 => decOut.cam.asked.colorSpace = "Smpte170m"

(***************************************************************************)
(* C25, amended.  camera_create asks for Rec709 exactly when the requested *)
(* width is at least 1280 or the requested height is at least 720, and for *)
(* SMPTE170M when both are below.                                          *)
(***************************************************************************)
C25_WideGamutWhenEitherLarge ==
    Decoded("startup") =>
       /\ AskedRec709 = (decIn.width >= HdWidth \/ decIn.height >= HdHeight)
       /\ ~AskedRec709 => decOut.cam.asked.colorSpace = "Smpte170m"

\* witness: 640x720, below the threshold in width alone, is given Rec709
C25_Witness ==
    /\ Decoded("startup")
    /\ decIn.width < HdWidth
    /\ decIn.height = HdHeight
    /\ AskedRec709

(***************************************************************************)
(* The running pipeline when the parent asks it to stop: by a message on   *)
(* the channel or by a signal.                                             *)
(***************************************************************************)
\* the set init_siglistener builds (main.c:60-62)
SigSet == {"SIGKILL"}

\* signals sigwait cannot wait for: they are taken out of the set it is given
Unwaitable == {"SIGKILL", "SIGSTOP"}

\* signals whose arrival makes sigwait(&set, &sig) return (main.c:119)
Waitable == SigSet \ Unwaitable

\* signals a parent sends to end the process
TermSignals == {"SIGTERM", "SIGINT", "SIGKILL"}

\* exit status of a process ended by a signal: not an exit code
KilledBySignal == -1

\* a completed request is handed to encoder_encode (camera.cpp:263-289,
\* main.c:49-51), with the timestamp of its frame
CaptureComplete ==
    /\ Running /\ camRunning /\ nCaptured < MaxCompletions
    /\ \E ok \in BOOLEAN : EncoderEncode(CaptureTs(nCaptured), ok)
    /\ nCaptured' = nCaptured + 1
    /\ UNCHANGED <<mainVars, mutex, drainPc, ts_initialized, start_ts, drainBuf,
                   hwDone, hwRet, hwOut, camRunning, pipeVars, tsVars, exitVars,
                   chVars, capVars>>

\* the parent writes a stop message to the channel.  No thread of the
\* process reads the channel (main.c:108-121), so nothing else changes
StopMessage ==
    /\ Running /\ mainPc = "sigwait"
    /\ stopReq = "none"
    /\ stopReq' = "message"
    /\ UNCHANGED <<procVars, chVars, requests, sensorQ, rcPc, rcReq, ctrls,
                   ctrls_mutex, supVars, rcLog, decVars, ringVars>>

\* a signal arrives.  No signal is blocked (main.c:59-68 builds a set and
\* changes no mask), so a signal sigwait is not waiting for takes its default
\* action and ends the process at once; a signal sigwait waits for makes it
\* return, and main returns 0
StopSignal ==
    /\ Running /\ mainPc = "sigwait"
    /\ \E sig \in TermSignals :
          IF sig \in Waitable
          THEN /\ retCode' = ExitClean
               /\ Exit(ExitClean, "main")
          ELSE /\ Exit(KilledBySignal, "signal")
               /\ UNCHANGED retCode
    /\ mainPc' = "exited"
    /\ stopReq' = "signal"
    /\ UNCHANGED <<mainErr, done, mutex, drainPc, encVars, hwVars, camVars,
                   pipeVars, tsVars, chVars, requests, sensorQ, rcPc, rcReq,
                   ctrls, ctrls_mutex, supVars, rcLog, decVars, ringVars>>

InitStop ==
    /\ ProcStarted
    /\ ChIdle
    /\ CapIdle
    /\ DecIdle
    /\ RingIdle
    /\ stopReq = "none"

NextStop ==
    \/ CaptureComplete
    \/ HwEncode
    \/ HwReturn
    \/ DrainPollFail
    \/ DrainPollIn
    \/ DrainDqInOk
    \/ DrainDqInFail
    \/ DrainDqOutOk
    \/ DrainDqOutFail
    \/ DrainLock
    \/ DrainWrite
    \/ DrainUnlock
    \/ DrainRequeueOk
    \/ DrainRequeueFail
    \/ StopMessage
    \/ StopSignal

SpecStop == InitStop /\ [][NextStop]_vars

\* the threads take their steps: a thread that can run is not held back for
\* ever, and the encoder goes on encoding and returning buffers
StopFairness ==
    /\ WF_vars(HwEncode)
    /\ WF_vars(HwReturn)
    /\ WF_vars(DrainPollIn \/ DrainDqInOk \/ DrainDqOutOk \/ DrainLock
               \/ DrainWrite \/ DrainUnlock \/ DrainRequeueOk)

SpecStopLive == SpecStop /\ StopFairness

\* positions of output_thread inside on_encoder_output (main.c:53-57)
InCallback == drainPc \in {"cb_lock", "w_len", "w_tag", "w_ts", "w_data", "cb_unlock"}

(***************************************************************************)
(* C26.  When the process ends after a stop request, capture had been      *)
(* stopped first, nothing was in flight any more (no frame queued at or    *)
(* held by the encoder, no access unit waiting, no callback under way),    *)
(* and the process ended by main returning after the release of the        *)
(* sessions.                                                               *)
(***************************************************************************)
C26_OrderlyStop ==
    (procState = "exited" /\ stopReq # "none") =>
       /\ ~camRunning
       /\ hwIn = << >> /\ hwDone = 0 /\ hwOut = << >>
       /\ ~InCallback
       /\ mutex = "free"
       /\ exitBy = "main"

(***************************************************************************)
(* C27.  A stop message or a termination signal delivered while the        *)
(* pipeline runs leads to the main thread leaving sigwait and to the       *)
(* process exiting with code 0.                                            *)
(***************************************************************************)
C27_StopReachable ==
    (stopReq # "none") ~>
        (procState = "exited" /\ exitBy = "main" /\ exitCode = ExitClean)

(***************************************************************************)
(* C28.  Once a stop has been requested, output_thread does not leave its  *)
(* bounded poll() for another round of dequeuing and calling the           *)
(* access-unit callback: from poll() it only stays or ends.                *)
(***************************************************************************)
C28_DrainLeavesOnStop ==
    [][(stopReq # "none" /\ drainPc = "poll") => drainPc' \in {"poll", "exited"}]_vars

(***************************************************************************)
(* C29.  A pipe_read call that finds the channel closed by its writer,     *)
(* and so reads no byte, reports the end of the stream: it returns length  *)
(* 0 and no data, never a length made of bytes it did not read.            *)
(***************************************************************************)
C29_ClosedChannelReported ==
    \A i \in DOMAIN chOut :
        chOut[i].got = 0 =>
            /\ chOut[i].n = LE(0, PrefixSize)
            /\ chOut[i].buf = << >>

\* timestamp of a frame queued at the encoder, in microseconds
QueuedTs(e) == e.tv_sec * UsecPerSec + e.tv_usec

\* the capture buffers the encoder holds: those of the frames encoder_encode
\* queued by their dmabuf descriptor and the encoder has not given back
EncoderHolds ==
    {FrameCbs[j].buf : j \in {i \in DOMAIN FrameCbs :
        /\ FrameCbs[i].accepted
        /\ \E k \in DOMAIN hwIn : QueuedTs(hwIn[k]) = CaptureTs(i - 1)}}

(***************************************************************************)
(* C30.  Single owner of a capture buffer: a buffer handed to the encoder  *)
(* is not queued at the sensor again while the encoder still holds it.     *)
(***************************************************************************)
C30_SingleOwner ==
    \A i \in DOMAIN sensorQ : sensorQ[i].buf \notin EncoderHolds

(***************************************************************************)
(* C32.  When a call made by encoder_create fails, encoder_create returns  *)
(* false with an error text set, leaves no open device descriptor and has  *)
(* not created the output thread; the thread exists only when both         *)
(* streams were activated, and then encoder_create returns true.           *)
(***************************************************************************)
C32_FailedCreateCleansUp ==
    Decoded("encoder_create") =>
        LET r == decOut.r
        IN  /\ decIn.fail # 0 =>
                  /\ ~r.ok
                  /\ r.err # ""
                  /\ r.fd # "open"
                  /\ ~r.thread
            /\ r.thread => r.ok /\ r.streams = {"output", "capture"}
            /\ decIn.fail = 0 => r.ok /\ r.thread /\ r.fd = "open"

\* witness: the mmap() of the second capture buffer has failed
C32_Witness ==
    /\ Decoded("encoder_create")
    /\ decOut.r.err = "mmap() failed"
    /\ decOut.r.mapped = <<0>>
    /\ decOut.r.fd = "closed"
    /\ ~decOut.r.thread

(***************************************************************************)
(* C34.  On a camera with the AfSpeed control, camera_start sets AfSpeed   *)
(* to Fast exactly when the af_speed parameter is "fast" and to Normal     *)
(* otherwise, whatever af_range is.                                        *)
(***************************************************************************)
C34_AfSpeedFromParameter ==
    (Decoded("camera_start") /\ "AfSpeed" \in decIn.has) =>
        decOut.ctrls.af_speed =
            (IF decIn.af_speed = "fast" THEN "AfSpeedFast" ELSE "AfSpeedNormal")

(***************************************************************************)
(* C36.  window_load and roi_load write parsed values only to vals[0] ..   *)
(* vals[3]; a value of five or more fields is rejected: the call returns   *)
(* false.                                                                  *)
(***************************************************************************)
C36_WritesStayInVals ==
    Decoded("window_load") =>
        /\ \A i \in decOut.r.written : i < ValsSize
        /\ Len(decIn.vals) > ValsSize => decOut.r.returned /\ ~decOut.r.ok

(***************************************************************************)
(* C37.  parameters_unserialize never reads through a missing value: for   *)
(* every entry, also a recognized key without a ':' separator, the entry   *)
(* is stored or ignored and val is not read while it is NULL.              *)
(***************************************************************************)
C37_NoNullValueAccess ==
    Decoded("entry") => decOut.r.outcome \in {"stored", "ignored"}

(***************************************************************************)
(* C40.  Whenever sensor_mode_load returns true, the packed field has been *)
(* assigned by the call: it is the default or follows the fourth field,    *)
(* and is never what the allocation happened to hold.                      *)
(***************************************************************************)
C40_PackedAssigned ==
    (Decoded("sensor_mode") /\ decOut.r.ok) => decOut.r.packedFrom # "heap"

(***************************************************************************)
(* C33.  With the text overlay enabled, the frame the completion callback  *)
(* submits to the encoder is the captured frame with the overlay drawn     *)
(* into it.                                                                *)
(***************************************************************************)
C33_OverlayBeforeEncode ==
    Decoded("on_frame") =>
        decOut.submitted = TextDraw(decIn.text_overlay_enable, decIn.frame)

(***************************************************************************)
(* C39.  The relative timestamps given to the access-unit callback never   *)
(* wrap and never decrease: no dequeued timestamp is below start_ts, each  *)
(* callback receives the exact difference, and the differences are in      *)
(* non-decreasing order.                                                   *)
(***************************************************************************)
C39_RelTsNeverWraps ==
    \A k \in DOMAIN absTs :
        /\ absTs[k] >= absTs[1]
        /\ cbTs[k] = U64(absTs[k] - absTs[1])
        /\ k > 1 => absTs[k - 1] <= absTs[k]

\* encoder_create has returned true: *enc holds the session
EncoderStored == \E i \in DOMAIN done : done[i] = <<"encoder_create", TRUE>>

(***************************************************************************)
(* C35.  No capture completion reaches on_frame, and so encoder_encode on  *)
(* the global enc, before encoder_create has returned true: whenever a     *)
(* frame has been delivered, queued at the encoder or dropped, the encode  *)
(* session exists and its output thread has been created.                  *)
(***************************************************************************)
C35_EncoderBeforeFrames ==
    (camRunning \/ nCaptured > 0 \/ nDropped > 0 \/ hwIn # << >>) =>
        EncoderStored /\ drainPc # "none"

\* witness: a completion was delivered while main was still starting up
C35_Witness ==
    /\ nCaptured > 0
    /\ hwIn # << >>
    /\ mainPc = "init_siglistener"
    /\ EncoderStored

(***************************************************************************)
(* The encode session: the ring of input indices encoder_encode walks      *)
(* (encoder.c:306-330) and the output slots output_thread dequeues, hands  *)
(* to the callback and queues again (encoder.c:46-113), after a            *)
(* successful encoder_create.                                              *)
(***************************************************************************)
MaxSubmits == 7     \* encoder_encode calls in one run: one more than the ring

SlotLength == 524288    \* sizeimage = 512 << 10

\* the session a successful encoder_create leaves
EncSession == EncoderCreate(CaptureBufferCount, 0)

\* variables the encode session leaves alone
encRest == <<mainVars, mutex, drainPc, ts_initialized, start_ts, drainBuf,
             hwDone, hwRet, hwOut, camRunning, pipeVars, tsVars, chVars,
             requests, sensorQ, rcPc, rcReq, ctrls, ctrls_mutex, supVars,
             rcLog, decVars, stopReq>>

\* input indices the encoder holds: queued by VIDIOC_QBUF and not yet
\* dequeued by output_thread
InputHeld ==
    {hwIn[i].index : i \in DOMAIN hwIn} \cup {inRet[i] : i \in DOMAIN inRet}

\* on_frame -> encoder_encode (main.c:49-51, encoder.c:306-330): the index
\* is taken from cur_buffer whatever the state of that buffer; the device
\* refuses a buffer it still holds, and may refuse any other
RingEncode ==
    /\ Running /\ camRunning /\ nCaptured < MaxSubmits
    /\ LET busy == cur_buffer \in InputHeld
       IN  \E ok \in BOOLEAN :
              /\ busy => ~ok
              /\ EncoderEncode(CaptureTs(nCaptured), ok)
              /\ encLog' = Append(encLog, [index |-> cur_buffer, busy |-> busy,
                                           accepted |-> ok])
    /\ nCaptured' = nCaptured + 1
    /\ UNCHANGED <<inRet, capQ, capReady, slotMem, ringPc, ringHeld, exitVars,
                   encRest>>

\* the device encodes the oldest queued frame into the oldest queued output
\* slot; both become available to VIDIOC_DQBUF
RingHwEncode ==
    /\ Running /\ hwIn # << >> /\ capQ # << >>
    /\ hwIn' = Tail(hwIn)
    /\ inRet' = Append(inRet, Head(hwIn).index)
    /\ capQ' = Tail(capQ)
    /\ capReady' = Append(capReady, Head(capQ))
    /\ UNCHANGED <<cur_buffer, nCaptured, nDropped, slotMem, ringPc, ringHeld,
                   encLog, exitVars, encRest>>

\* encoder.c:50-57, poll() reports POLLIN
RingPollIn ==
    /\ Running /\ ringPc = "poll"
    /\ capReady # << >>
    /\ ringPc' = "dq_in"
    /\ UNCHANGED <<cur_buffer, hwIn, nCaptured, nDropped, inRet, capQ, capReady,
                   slotMem, ringHeld, encLog, exitVars, encRest>>

\* encoder.c:58-68, VIDIOC_DQBUF on the input queue
RingDqIn ==
    /\ Running /\ ringPc = "dq_in"
    /\ inRet # << >>
    /\ inRet' = Tail(inRet)
    /\ ringPc' = "dq_out"
    /\ UNCHANGED <<cur_buffer, hwIn, nCaptured, nDropped, capQ, capReady,
                   slotMem, ringHeld, encLog, exitVars, encRest>>

\* encoder.c:64-68, VIDIOC_DQBUF on the input queue fails: exit(1)
RingDqInFail ==
    /\ Running /\ ringPc = "dq_in"
    /\ Exit(ExitDrainFailure, "drain")
    /\ ringPc' = "exited"
    /\ UNCHANGED <<cur_buffer, hwIn, nCaptured, nDropped, inRet, capQ, capReady,
                   slotMem, ringHeld, encLog, encRest>>

\* encoder.c:70-77, VIDIOC_DQBUF on the capture queue returns a slot: its
\* index and the length of its plane are kept for the requeue (91-92)
RingDqOut ==
    /\ Running /\ ringPc = "dq_out"
    /\ capReady # << >>
    /\ ringHeld' = [index |-> Head(capReady),
                    length |-> slotMem[Head(capReady)].length]
    /\ capReady' = Tail(capReady)
    /\ ringPc' = "cb"
    /\ UNCHANGED <<cur_buffer, hwIn, nCaptured, nDropped, inRet, capQ, slotMem,
                   encLog, exitVars, encRest>>

\* encoder.c:76-77 and 108-109, VIDIOC_DQBUF on the capture queue fails:
\* nothing was dequeued, back to poll()
RingDqOutFail ==
    /\ Running /\ ringPc = "dq_out"
    /\ ringPc' = "poll"
    /\ UNCHANGED <<cur_buffer, hwIn, nCaptured, nDropped, inRet, capQ, capReady,
                   slotMem, ringHeld, encLog, exitVars, encRest>>

\* encoder.c:87-89, encp->output_cb(ts, bufmem, bufsize) is called and
\* returns
RingCallback ==
    /\ Running /\ ringPc = "cb"
    /\ ringPc' = "requeue"
    /\ UNCHANGED <<cur_buffer, hwIn, nCaptured, nDropped, inRet, capQ, capReady,
                   slotMem, ringHeld, encLog, exitVars, encRest>>

\* faulty variant: the slot after the dequeued one is queued
RequeuedNext(held) ==
    [index |-> (held.index + 1) % CaptureBufferCount, length |-> held.length]

\* encoder.c:91-102, the buffer given to VIDIOC_QBUF: buf.index = index,
\* planes[0].length = length
Requeued(held) == [index |-> held.index, length |-> held.length]

\* encoder.c:103, VIDIOC_QBUF puts the slot back on the capture queue
RingRequeue ==
    /\ Running /\ ringPc = "requeue"
    /\ LET b == Requeued(ringHeld)
       IN  /\ capQ' = Append(capQ, b.index)
           /\ slotMem' = [slotMem EXCEPT ![b.index].length = b.length]
    /\ ringHeld' = NoSlot
    /\ ringPc' = "poll"
    /\ UNCHANGED <<cur_buffer, hwIn, nCaptured, nDropped, inRet, capReady,
                   encLog, exitVars, encRest>>

\* encoder.c:103-107, VIDIOC_QBUF fails: exit(1)
RingRequeueFail ==
    /\ Running /\ ringPc = "requeue"
    /\ Exit(ExitDrainFailure, "drain")
    /\ ringPc' = "exited"
    /\ UNCHANGED <<cur_buffer, hwIn, nCaptured, nDropped, inRet, capQ, capReady,
                   slotMem, ringHeld, encLog, encRest>>

\* the state encoder_create leaves: every slot mapped and queued in the
\* order of the loop (encoder.c:239-276), the output thread at poll()
InitEnc ==
    /\ ProcStarted
    /\ ChIdle
    /\ CapIdle
    /\ DecIdle
    /\ stopReq = "none"
    /\ inRet = << >>
    /\ capQ = EncSession.mapped
    /\ capReady = << >>
    /\ slotMem = [i \in 0..(CaptureBufferCount - 1) |->
                     [length |-> SlotLength,
                      maps |-> Cardinality({k \in DOMAIN EncSession.mapped :
                                                EncSession.mapped[k] = i})]]
    /\ ringPc = "poll"
    /\ ringHeld = NoSlot
    /\ encLog = << >>

NextEnc ==
    \/ RingEncode
    \/ RingHwEncode
    \/ RingPollIn
    \/ RingDqIn
    \/ RingDqInFail
    \/ RingDqOut
    \/ RingDqOutFail
    \/ RingCallback
    \/ RingRequeue
    \/ RingRequeueFail

SpecEnc == InitEnc /\ [][NextEnc]_vars

\* the output slots in the hands of the device, oldest queued first
SlotsAtDevice == capQ \o capReady

\* the output slots outside the device's queues
SlotsOutside ==
    DOMAIN slotMem \ {SlotsAtDevice[i] : i \in DOMAIN SlotsAtDevice}

(***************************************************************************)
(* C31.  Life of the encoder's output slots: every slot stays mapped       *)
(* exactly once with the capacity it was given; the session always has     *)
(* capture_buffer_count slots, each in one place only; at most one slot    *)
(* is outside the device's queues, namely the one output_thread has        *)
(* dequeued, and it is back in the queue, under the same index, only       *)
(* after the callback has returned.                                        *)
(***************************************************************************)
C31_SlotLifecycle ==
    /\ DOMAIN slotMem = 0..(CaptureBufferCount - 1)
    /\ \A s \in DOMAIN slotMem :
          slotMem[s].maps = 1 /\ slotMem[s].length = SlotLength
    /\ \A i, j \in DOMAIN SlotsAtDevice :
          SlotsAtDevice[i] = SlotsAtDevice[j] => i = j
    /\ Cardinality(SlotsOutside) <= 1
    /\ SlotsOutside = (IF ringHeld = NoSlot THEN {} ELSE {ringHeld.index})
    /\ ringPc \in {"cb", "requeue"} => ringHeld # NoSlot
    /\ ringPc \in {"poll", "dq_in", "dq_out"} => ringHeld = NoSlot
    /\ ringHeld # NoSlot => ringHeld.length = SlotLength

\* witness: slot 0 went through the callback and is queued again, behind
\* the others
C31_Witness ==
    /\ ringPc = "poll"
    /\ ringHeld = NoSlot
    /\ Len(capQ) = CaptureBufferCount
    /\ capQ[Len(capQ)] = 0
    /\ inRet = << >>

(***************************************************************************)
(* C38.  encoder_encode walks the input indices round-robin within         *)
(* 0 .. buffer_count - 1, advancing also after a rejected submission, and  *)
(* never gives VIDIOC_QBUF an index the encoder still holds, that is one   *)
(* queued earlier and not yet dequeued by output_thread.                   *)
(***************************************************************************)
C38_NeverQueuesHeldIndex ==
    \A i \in DOMAIN encLog :
        /\ encLog[i].index = (i - 1) % BufferCount
        /\ ~encLog[i].busy

====
